---- MODULE Spec2Model ----
(***************************************************************************)
(* Model of net/log/file_net_log_observer.cc: FileNetLogObserver, its      *)
(* WriteQueue and its FileWriter.                                          *)
(*                                                                         *)
(* Texts are sequences of one-character strings, so that file contents,    *)
(* byte counts and the two-byte seek-back are modelled byte for byte.      *)
(* A FILE* is modelled with its stdio buffer: fwrite appends to the        *)
(* buffer, and the buffer reaches the disk at the handle's file offset on  *)
(* fflush, fseek and fclose, or earlier when the C library decides to.     *)
(* Writes to an open handle and deletions always succeed; opening a file   *)
(* and creating the directory may fail.                                    *)
(*                                                                         *)
(* The observer's methods are called from one sequence, StartObserving at  *)
(* most once; NetLog calls OnAddEntry under its lock, so StopObserving and *)
(* the destructor do not run inside an OnAddEntry.  The tasks posted to    *)
(* file_task_runner_ run one at a time in posting order; Flush is taken    *)
(* one loop iteration at a time, interleaved with the caller's steps.      *)
(***************************************************************************)
EXTENDS Integers, Sequences, FiniteSets, TLC

\* ------------------------------------------------------------------ bounds
MaxEvents == 16     \* events that reach the write queue in one run
\* The same for the run with more event files than the limit has bytes, long
\* enough for the file numbers to go once around all the event files.
MaxRingEvents == 26
\* The irregularities of one run: events of an odd encoded size, values the
\* encoder fails on, failing fopen / CreateDirectory calls, and buffers the C
\* library writes out by itself.
MaxAnomalies == 1

\* ------------------------------------------------------- program constants
kNumWriteQueueEvents == 15
kDefaultNumFiles == 10
\* size_t arithmetic is modulo SizeTModulus (a 16-bit stand-in for 2^64, which
\* the model checker's integers cannot hold).
SizeTModulus == 65536
kNoLimit == SizeTModulus - 1

\* The configurations explored: <<max_total_size, total_num_event_files>>.
Configs ==
  { <<kNoLimit, kDefaultNumFiles>>, <<26, 1>>, <<23, 3>>, <<4, 3>>,
    <<SizeTModulus \div 2, 3>> }
\* A configuration with max_total_size < total_num_event_files whose queue can
\* still reach kNumWriteQueueEvents events.
RingConfig == <<23, 24>>

\* -------------------------------------------------------------------- text
kConstantsKey == <<"{", "\"", "c", "o", "n", "s", "t", "a", "n", "t", "s", "\"", ":">>
kEventsKey == <<",", "\n", "\"", "e", "v", "e", "n", "t", "s", "\"", ":", " ", "[", "\n">>
kEventSeparator == <<",", "\n">>
kArrayClose == <<"]">>
kPolledDataKey ==
  <<",", "\n", "\"", "p", "o", "l", "l", "e", "d", "D", "a", "t", "a", "\"", ":", " ">>
kNewline == <<"\n">>
kLogClose == <<"}", "\n">>
kPlaceholder ==
  <<"L", "o", "g", " ", "d", "a", "t", "a", " ", "i", "s", " ", "b", "e", "i", "n", "g", " ",
    "w", "r", "i", "t", "t", "e", "n", " ", "t", "o", " ", "t", "h", "e", " ",
    "X", "X", "X", ".", "i", "n", "p", "r", "o", "g", "r", "e", "s", "s", " ",
    "d", "i", "r", "e", "c", "t", "o", "r", "y">>

\* The constants value handed to the constructor, as the encoder writes it.
ConstantsJson == <<"{", "}">>

Letters ==
  <<"a", "b", "c", "d", "e", "f", "g", "h", "i", "j", "k", "l", "m",
    "n", "o", "p", "q", "r", "s", "t", "u", "v", "w", "x", "y", "z",
    "A", "B", "C", "D", "E", "F">>

\* The encoder's output for event number id of encoded size len: a compact JSON
\* object, "{" and "}" around len-2 payload bytes that identify the event.  The
\* queue holds an event as [id, len]; its text is EventJson of it.
EventJson(e) ==
  <<"{">> \o [i \in 1..(e.len - 2) |-> Letters[e.id]] \o <<"}">>

\* Encoded sizes of events: the ordinary size and the odd ones.
OrdinarySize == {3}
OddSizes == {5, 70}

\* The polled data StopObserving may be given: none, or a value.  For a value
\* the encoder writes PolledJson, or nothing when it fails.
PolledChoices == {"none", "value"}
PolledJson == <<"{", "}">>

\* ------------------------------------------------------------- file system
\* Paths.  Everything but the final log lives in the .inprogress directory.
FinalLogPath == <<"final", 0>>
GetConstantsFilePath == <<"constants", 0>>
GetClosingFilePath == <<"end_netlog", 0>>
GetEventFilePath(index) == <<"event_file", index>>
EventFilePaths ==
  { GetEventFilePath(i) :
      i \in UNION { 0..(c[2] - 1) :
                      c \in {x \in Configs \cup {RingConfig} : x[1] # kNoLimit} } }
InprogressPaths == {GetConstantsFilePath, GetClosingFilePath} \cup EventFilePaths
Paths == {FinalLogPath} \cup InprogressPaths

NoSuchFile == [exists |-> FALSE, data |-> <<>>]
EmptyFile == [exists |-> TRUE, data |-> <<>>]
EmptyDisk == [dir |-> FALSE, files |-> [p \in Paths |-> NoSuchFile]]

\* A FILE*: null, or an open stream with the offset of its file descriptor and
\* the bytes fwrite has buffered and not yet written out.
NullFile == [open |-> FALSE, path |-> <<"none", 0>>, off |-> 0, buf |-> <<>>]
NewFile(path) == [open |-> TRUE, path |-> path, off |-> 0, buf |-> <<>>]

\* write(2) of bytes at offset off into a file holding data (a write past the
\* end leaves a hole of NUL bytes).
WriteAt(data, off, bytes) ==
  LET padded == IF Len(data) < off
                THEN data \o [i \in 1..(off - Len(data)) |-> "\\0"]
                ELSE data
  IN SubSeq(padded, 1, off) \o bytes
       \o SubSeq(padded, off + Len(bytes) + 1, Len(padded))

\* The disk and the stream after the stream's buffer is written out.
FlushedDisk(d, f) ==
  IF f.open /\ f.buf # <<>> /\ d.files[f.path].exists
  THEN [d EXCEPT !.files[f.path].data = WriteAt(@, f.off, f.buf)]
  ELSE d
FlushedFile(f) ==
  IF f.open THEN [f EXCEPT !.off = @ + Len(f.buf), !.buf = <<>>] ELSE f

\* fopen(path, "wb") can succeed only if the directory of path exists.
CanOpenForWrite(d, path) == (path \in InprogressPaths) => d.dir
\* fopen(path, "wb") creates or truncates the file.
Truncated(d, path) == [d EXCEPT !.files[path] = EmptyFile]

\* base::DeleteFile(path, false) and base::DeleteFile(directory, true).
DeleteFile(d, path) == [d EXCEPT !.files[path] = NoSuchFile]
DeleteInprogressDirectory(d) ==
  [dir |-> FALSE,
   files |-> [p \in Paths |-> IF p \in InprogressPaths THEN NoSuchFile
                                                       ELSE d.files[p]]]

\* fseek(file, -2, SEEK_END): writes the buffer out, then moves to two bytes
\* before the end; fails, leaving the position alone, in a file under 2 bytes.
SeekEndMinus2(d, f) ==
  LET size == Len(FlushedDisk(d, f).files[f.path].data)
  IN IF size >= 2 THEN [FlushedFile(f) EXCEPT !.off = size - 2]
                  ELSE FlushedFile(f)

\* Variant with a defect: a write to a null stream reports its bytes as written.
WriteToFileCountsNull(f, data) ==
  IF f.open THEN [file |-> [f EXCEPT !.buf = @ \o data], n |-> Len(data)]
            ELSE [file |-> f, n |-> Len(data)]

\* WriteToFile: appends data to the stream unless it is null; .n is the number
\* of bytes written.
WriteToFile(f, data) ==
  IF f.open THEN [file |-> [f EXCEPT !.buf = @ \o data], n |-> Len(data)]
            ELSE [file |-> f, n |-> 0]

\* ------------------------------------------------------------------- state
VARIABLES
  max_total_size,             \* CreateBoundedInternal's max_total_size
  total_num_event_files_,     \* FileWriter::total_num_event_files_
  observer,                   \* "alive" | "destroyed" (the FileNetLogObserver)
  net_log,                    \* net_log() is non-null: the observer is registered
  start_called,               \* StartObserving has been called
  stop_called,                \* StopObserving has been called
  posting,                    \* OnAddEntry is between its push and its PostTask
  queue_,                     \* WriteQueue::queue_
  memory_,                    \* WriteQueue::memory_
  task_queue,                 \* tasks posted to file_task_runner_, oldest first
  running,                    \* the task the file task runner is inside of
  local_file_queue,           \* Flush's local_file_queue
  file_writer,                \* "alive" | "deleted" (the FileWriter)
  final_log_file_,            \* FileWriter::final_log_file_
  current_event_file_,        \* FileWriter::current_event_file_
  current_event_file_size_,   \* FileWriter::current_event_file_size_
  current_event_file_number_, \* FileWriter::current_event_file_number_
  wrote_event_bytes_,         \* FileWriter::wrote_event_bytes_
  disk,                       \* the files and the .inprogress directory
  pushed,                     \* history: events given to AddEntryToQueue, in order
  written,                    \* history: events Flush wrote to a non-null file
  swapped,                    \* history: Len(pushed) at the last SwapQueue
  odd_events,                 \* history: events of an odd size so far
  encode_failures,            \* history: values the encoder failed on
  io_failures,                \* history: failed fopen / CreateDirectory calls
  stdio_flushes,              \* history: buffers the C library wrote out itself
  stops,                      \* history: completed runs of FileWriter::Stop
  stop_polled,                \* history: the polled JSON the first Stop wrote
  stopped_text,               \* history: the final file as the first Stop left it
  dropped,                    \* history: ids of the events AddEntryToQueue dropped
  create_directory_failed,    \* history: CreateDirectory failed in Initialize
  written_to,                 \* history: the file number each written event went to
  polled_supplied,            \* history: the polled data the first Stop was given
  optional_callback           \* "null" | "bound" | "posted" | "run" (StopObserving's)

observer_vars == <<observer, net_log, start_called, stop_called, posting>>
config_vars == <<max_total_size, total_num_event_files_>>
queue_vars == <<queue_, memory_>>
writer_vars ==
  <<file_writer, final_log_file_, current_event_file_, current_event_file_size_,
    current_event_file_number_, wrote_event_bytes_>>
anomaly_vars == <<odd_events, encode_failures, io_failures, stdio_flushes>>
stop_history == <<stops, stop_polled, stopped_text>>
vars ==
  <<config_vars, observer_vars, queue_vars, task_queue, running, local_file_queue,
    writer_vars, disk, pushed, written, swapped, anomaly_vars, stop_history,
    dropped, create_directory_failed, written_to, polled_supplied, optional_callback>>

\* How many more irregularities the run may have.
AnomaliesLeft ==
  MaxAnomalies - (odd_events + encode_failures + io_failures + stdio_flushes)

\* CreateBoundedInternal: the per-file limit and the queue's memory limit.
max_event_file_size_ ==
  IF max_total_size = kNoLimit THEN kNoLimit
  ELSE max_total_size \div total_num_event_files_
memory_max_ == (max_total_size * 2) % SizeTModulus

IsUnbounded == max_event_file_size_ = kNoLimit
IsBounded == ~IsUnbounded

\* current_event_file_size_ is not initialized by the constructor.
Uninitialized == -1

NoTask == [op |-> "idle", polled |-> "none"]
Task(op) == [op |-> op, polled |-> "none"]
StopTask(polled_data) == [op |-> "FlushThenStop", polled |-> polled_data]

\* The constructor posts Initialize.
InitState ==
  /\ observer = "alive"
  /\ net_log = FALSE
  /\ start_called = FALSE
  /\ stop_called = FALSE
  /\ posting = FALSE
  /\ queue_ = <<>>
  /\ memory_ = 0
  /\ task_queue = <<Task("Initialize")>>
  /\ running = NoTask
  /\ local_file_queue = <<>>
  /\ file_writer = "alive"
  /\ final_log_file_ = NullFile
  /\ current_event_file_ = NullFile
  /\ current_event_file_size_ = Uninitialized
  /\ current_event_file_number_ = 0
  /\ wrote_event_bytes_ = FALSE
  /\ disk = EmptyDisk
  /\ pushed = <<>>
  /\ written = <<>>
  /\ swapped = 0
  /\ odd_events = 0
  /\ encode_failures = 0
  /\ io_failures = 0
  /\ stdio_flushes = 0
  /\ stops = 0
  /\ stop_polled = <<>>
  /\ stopped_text = <<>>
  /\ dropped = {}
  /\ create_directory_failed = FALSE
  /\ written_to = <<>>
  /\ polled_supplied = "none"
  /\ optional_callback = "null"

Init ==
  /\ \E c \in Configs : max_total_size = c[1] /\ total_num_event_files_ = c[2]
  /\ InitState

\* The observer created with RingConfig.
InitRing ==
  /\ max_total_size = RingConfig[1] /\ total_num_event_files_ = RingConfig[2]
  /\ InitState

\* How many events a run may push.
EventBound ==
  IF <<max_total_size, total_num_event_files_>> = RingConfig THEN MaxRingEvents
                                                            ELSE MaxEvents

\* ------------------------------------------------------------- write queue
RECURSIVE SumSizes(_)
SumSizes(q) == IF q = <<>> THEN 0 ELSE Head(q).len + SumSizes(Tail(q))

\* Variants with a defect, used to test that the properties below notice it.
\* The loop stops short of emptying the queue.
RECURSIVE DropOldestKeepsOne(_)
DropOldestKeepsOne(w) ==
  IF w.memory > memory_max_ /\ Len(w.queue) > 1
  THEN DropOldestKeepsOne([queue |-> Tail(w.queue),
                           memory |-> (w.memory - Head(w.queue).len) % SizeTModulus])
  ELSE w

\* The loop drops the newest event (the back of the queue), not the oldest.
RECURSIVE DropNewest(_)
DropNewest(w) ==
  IF w.memory > memory_max_ /\ w.queue # <<>>
  THEN DropNewest([queue |-> SubSeq(w.queue, 1, Len(w.queue) - 1),
                   memory |-> (w.memory - w.queue[Len(w.queue)].len) % SizeTModulus])
  ELSE w
AddEntryToQueueDropsNewest(event) ==
  DropNewest([queue |-> Append(queue_, event),
              memory |-> (memory_ + event.len) % SizeTModulus])

\* Variant with a defect: dropping an event takes only one byte off memory_.
RECURSIVE DropOldestUndercounts(_)
DropOldestUndercounts(w) ==
  IF w.memory > memory_max_ /\ w.queue # <<>>
  THEN DropOldestUndercounts([queue |-> Tail(w.queue),
                              memory |-> (w.memory - 1) % SizeTModulus])
  ELSE w

\* Variant with a defect: nothing is ever dropped.
DropOldestNever(w) == w

\* The loop of AddEntryToQueue: drop the oldest events while over the limit.
RECURSIVE DropOldest(_)
DropOldest(w) ==
  IF w.memory > memory_max_ /\ w.queue # <<>>
  THEN DropOldest([queue |-> Tail(w.queue),
                   memory |-> (w.memory - Head(w.queue).len) % SizeTModulus])
  ELSE w

\* Variant with a defect: the loop runs before the event is pushed, so the
\* event pushed last is never dropped.
AddEntryToQueueDropsBeforePush(event) ==
  LET w == DropOldest([queue |-> queue_, memory |-> memory_])
  IN [queue |-> Append(w.queue, event),
      memory |-> (w.memory + event.len) % SizeTModulus]

\* WriteQueue::AddEntryToQueue: the queue and the counter after adding event.
AddEntryToQueue(event) ==
  DropOldest([queue |-> Append(queue_, event),
              memory |-> (memory_ + event.len) % SizeTModulus])

\* -------------------------------------------------------- observer (caller)
StartObserving ==
  /\ observer = "alive" /\ ~start_called
  /\ net_log' = TRUE
  /\ start_called' = TRUE
  /\ UNCHANGED <<config_vars, observer, stop_called, posting, queue_vars, task_queue,
                 running, local_file_queue, writer_vars, disk, pushed, written, swapped,
                 anomaly_vars, stop_history, dropped, create_directory_failed,
                 written_to, polled_supplied, optional_callback>>

\* Variant with a defect: an entry the encoder fails on still has a Flush task
\* posted for it.
OnAddEntryEncodeFailsPostsFlush ==
  /\ net_log /\ ~posting
  /\ AnomaliesLeft > 0
  /\ encode_failures' = encode_failures + 1
  /\ task_queue' = Append(task_queue, Task("Flush"))
  /\ UNCHANGED <<config_vars, observer_vars, queue_vars, running,
                 local_file_queue, writer_vars, disk, pushed, written, swapped,
                 odd_events, io_failures, stdio_flushes, stop_history, dropped,
                 create_directory_failed, written_to, polled_supplied,
                 optional_callback>>

\* OnAddEntry whose entry the encoder fails on: the event is ignored.
OnAddEntryEncodeFails ==
  /\ net_log /\ ~posting
  /\ AnomaliesLeft > 0
  /\ encode_failures' = encode_failures + 1
  /\ UNCHANGED <<config_vars, observer_vars, queue_vars, task_queue, running,
                 local_file_queue, writer_vars, disk, pushed, written, swapped,
                 odd_events, io_failures, stdio_flushes, stop_history, dropped,
                 create_directory_failed, written_to, polled_supplied,
                 optional_callback>>

\* Variant with a defect: the producer cannot push while Flush is writing, as
\* if Flush held the queue's lock over its file writes.
OnAddEntryWaitsForFlush(len) ==
  /\ net_log /\ ~posting
  /\ running = NoTask
  /\ Len(pushed) < EventBound
  /\ len \in OddSizes => AnomaliesLeft > 0
  /\ LET event == [id |-> Len(pushed) + 1, len |-> len]
         w == AddEntryToQueue(event)
         queue_size == Len(w.queue)
     IN /\ queue_' = w.queue
        /\ memory_' = w.memory
        /\ posting' = (queue_size = kNumWriteQueueEvents)
        /\ pushed' = Append(pushed, event)
        /\ dropped' = dropped \cup
                      (({event.id} \cup {queue_[i].id : i \in 1..Len(queue_)})
                         \ {w.queue[i].id : i \in 1..Len(w.queue)})
  /\ odd_events' = IF len \in OddSizes THEN odd_events + 1 ELSE odd_events
  /\ UNCHANGED <<config_vars, observer, net_log, start_called, stop_called, task_queue,
                 running, local_file_queue, writer_vars, disk, written, swapped,
                 encode_failures, io_failures, stdio_flushes, stop_history,
                 create_directory_failed, written_to, polled_supplied,
                 optional_callback>>

\* Variant with a defect: the Flush task is posted one event late, when the
\* queue is one longer than kNumWriteQueueEvents.
OnAddEntryPostsLate(len) ==
  /\ net_log /\ ~posting
  /\ Len(pushed) < EventBound
  /\ len \in OddSizes => AnomaliesLeft > 0
  /\ LET event == [id |-> Len(pushed) + 1, len |-> len]
         w == AddEntryToQueue(event)
         queue_size == Len(w.queue)
     IN /\ queue_' = w.queue
        /\ memory_' = w.memory
        /\ posting' = (queue_size = kNumWriteQueueEvents + 1)
        /\ pushed' = Append(pushed, event)
        /\ dropped' = dropped \cup
                      (({event.id} \cup {queue_[i].id : i \in 1..Len(queue_)})
                         \ {w.queue[i].id : i \in 1..Len(w.queue)})
  /\ odd_events' = IF len \in OddSizes THEN odd_events + 1 ELSE odd_events
  /\ UNCHANGED <<config_vars, observer, net_log, start_called, stop_called, task_queue,
                 running, local_file_queue, writer_vars, disk, written, swapped,
                 encode_failures, io_failures, stdio_flushes, stop_history,
                 create_directory_failed, written_to, polled_supplied,
                 optional_callback>>

\* OnAddEntry up to the return of AddEntryToQueue.
OnAddEntry(len) ==
  /\ net_log /\ ~posting
  /\ Len(pushed) < EventBound
  /\ len \in OddSizes => AnomaliesLeft > 0
  /\ LET event == [id |-> Len(pushed) + 1, len |-> len]
         w == AddEntryToQueue(event)
         queue_size == Len(w.queue)
     IN /\ queue_' = w.queue
        /\ memory_' = w.memory
        /\ posting' = (queue_size = kNumWriteQueueEvents)
        /\ pushed' = Append(pushed, event)
        /\ dropped' = dropped \cup
                      (({event.id} \cup {queue_[i].id : i \in 1..Len(queue_)})
                         \ {w.queue[i].id : i \in 1..Len(w.queue)})
  /\ odd_events' = IF len \in OddSizes THEN odd_events + 1 ELSE odd_events
  /\ UNCHANGED <<config_vars, observer, net_log, start_called, stop_called, task_queue,
                 running, local_file_queue, writer_vars, disk, written, swapped,
                 encode_failures, io_failures, stdio_flushes, stop_history,
                 create_directory_failed, written_to, polled_supplied,
                 optional_callback>>

\* The rest of OnAddEntry when queue_size == kNumWriteQueueEvents.
OnAddEntryPostFlush ==
  /\ posting
  /\ task_queue' = Append(task_queue, Task("Flush"))
  /\ posting' = FALSE
  /\ UNCHANGED <<config_vars, observer, net_log, start_called, stop_called, queue_vars,
                 running, local_file_queue, writer_vars, disk, pushed, written, swapped,
                 anomaly_vars, stop_history, dropped, create_directory_failed,
                 written_to, polled_supplied, optional_callback>>

\* Variant with a defect: StopObserving posts the stop task without removing
\* the observer from the NetLog.
StopObservingStaysSubscribed(polled_data) ==
  /\ observer = "alive" /\ net_log /\ ~posting
  /\ stop_called' = TRUE
  /\ task_queue' = Append(task_queue, StopTask(polled_data))
  /\ UNCHANGED <<config_vars, observer, net_log, start_called, posting, queue_vars,
                 running, local_file_queue, writer_vars, disk, pushed, written, swapped,
                 anomaly_vars, stop_history, dropped, create_directory_failed,
                 written_to, polled_supplied, optional_callback>>

StopObserving(polled_data) ==
  /\ observer = "alive" /\ net_log /\ ~posting
  /\ net_log' = FALSE
  /\ stop_called' = TRUE
  /\ task_queue' = Append(task_queue, StopTask(polled_data))
  /\ UNCHANGED <<config_vars, observer, start_called, posting, queue_vars, running,
                 local_file_queue, writer_vars, disk, pushed, written, swapped,
                 anomaly_vars, stop_history, dropped, create_directory_failed,
                 written_to, polled_supplied, optional_callback>>

\* Variant with a defect: the callback is posted to the caller at once instead
\* of being bound to the stop task as its reply.
StopObservingRepliesAtOnce(polled_data) ==
  /\ observer = "alive" /\ net_log /\ ~posting
  /\ net_log' = FALSE
  /\ stop_called' = TRUE
  /\ task_queue' = Append(task_queue, StopTask(polled_data))
  /\ optional_callback' = "posted"
  /\ UNCHANGED <<config_vars, observer, start_called, posting, queue_vars, running,
                 local_file_queue, writer_vars, disk, pushed, written, swapped,
                 anomaly_vars, stop_history, dropped, create_directory_failed,
                 written_to, polled_supplied>>

\* StopObserving with a non-null optional_callback: FlushThenStop is posted
\* with PostTaskAndReply, the callback being the reply.
StopObservingWithCallback(polled_data) ==
  /\ observer = "alive" /\ net_log /\ ~posting
  /\ net_log' = FALSE
  /\ stop_called' = TRUE
  /\ task_queue' = Append(task_queue, StopTask(polled_data))
  /\ optional_callback' = "bound"
  /\ UNCHANGED <<config_vars, observer, start_called, posting, queue_vars, running,
                 local_file_queue, writer_vars, disk, pushed, written, swapped,
                 anomaly_vars, stop_history, dropped, create_directory_failed,
                 written_to, polled_supplied>>

\* The caller's task runner runs the reply PostTaskAndReply posted to it.
RunReply ==
  /\ optional_callback = "posted"
  /\ optional_callback' = "run"
  /\ UNCHANGED <<config_vars, observer_vars, queue_vars, task_queue, running,
                 local_file_queue, writer_vars, disk, pushed, written, swapped,
                 anomaly_vars, stop_history, dropped, create_directory_failed,
                 written_to, polled_supplied>>

\* Variant with a defect: the destructor posts the deletion of the file writer
\* before DeleteAllFiles.
DestroyObserverDeletesWriterFirst ==
  /\ observer = "alive" /\ ~posting
  /\ observer' = "destroyed"
  /\ net_log' = FALSE
  /\ task_queue' =
       IF net_log
       THEN task_queue \o <<Task("DeleteSoon"), Task("DeleteAllFiles")>>
       ELSE Append(task_queue, Task("DeleteSoon"))
  /\ UNCHANGED <<config_vars, start_called, stop_called, posting, queue_vars, running,
                 local_file_queue, writer_vars, disk, pushed, written, swapped,
                 anomaly_vars, stop_history, dropped, create_directory_failed,
                 written_to, polled_supplied, optional_callback>>

\* Variant with a defect: the destructor posts DeleteAllFiles unconditionally.
DestroyObserverAlwaysDeletes ==
  /\ observer = "alive" /\ ~posting
  /\ observer' = "destroyed"
  /\ net_log' = FALSE
  /\ task_queue' = task_queue \o <<Task("DeleteAllFiles"), Task("DeleteSoon")>>
  /\ UNCHANGED <<config_vars, start_called, stop_called, posting, queue_vars, running,
                 local_file_queue, writer_vars, disk, pushed, written, swapped,
                 anomaly_vars, stop_history, dropped, create_directory_failed,
                 written_to, polled_supplied, optional_callback>>

\* ~FileNetLogObserver.
DestroyObserver ==
  /\ observer = "alive" /\ ~posting
  /\ observer' = "destroyed"
  /\ net_log' = FALSE
  /\ task_queue' =
       IF net_log
       THEN task_queue \o <<Task("DeleteAllFiles"), Task("DeleteSoon")>>
       ELSE Append(task_queue, Task("DeleteSoon"))
  /\ UNCHANGED <<config_vars, start_called, stop_called, posting, queue_vars, running,
                 local_file_queue, writer_vars, disk, pushed, written, swapped,
                 anomaly_vars, stop_history, dropped, create_directory_failed,
                 written_to, polled_supplied, optional_callback>>

\* ------------------------------------------------------------- file writer
\* A stream together with the disk: what the FileWriter's helpers work on.
Stream(d, f) == [disk |-> d, file |-> f]

\* OpenFileForWrite: the disk and the handle, null when fopen fails.
OpenFileForWrite(d, path, fails) ==
  IF CanOpenForWrite(d, path) /\ ~fails
  THEN Stream(Truncated(d, path), NewFile(path))
  ELSE Stream(d, NullFile)

\* Variant with a defect: the index is taken from the file number itself.
FileNumberToIndexOffByOne(file_number) == file_number % total_num_event_files_

\* Variant with a defect: the index does not wrap around.
FileNumberToIndexNoWrap(file_number) == file_number - 1

FileNumberToIndex(file_number) == (file_number - 1) % total_num_event_files_

WriteConstantsToFile(f) ==
  WriteToFile(f, kConstantsKey \o ConstantsJson \o kEventsKey).file

\* polled_data_json: what the encoder wrote for the polled data, empty when
\* there is none or the encoder failed.
\* Variant with a defect: the polledData clause is written even when there is
\* no polled data.
WritePolledDataToFileAlways(f, polled_data_json) ==
  LET f1 == WriteToFile(f, kArrayClose).file
      f2 == WriteToFile(f1, kPolledDataKey \o polled_data_json \o kNewline).file
  IN WriteToFile(f2, kLogClose).file

WritePolledDataToFile(f, polled_data_json) ==
  LET f1 == WriteToFile(f, kArrayClose).file
      f2 == IF polled_data_json # <<>>
            THEN WriteToFile(f1, kPolledDataKey \o polled_data_json \o kNewline).file
            ELSE f1
  IN WriteToFile(f2, kLogClose).file

\* Variant with a defect: the ",\n" after the last event is never stripped.
RewindNever(s) == s

\* Variant with a defect: the seek-back does not look at wrote_event_bytes_.
RewindAlways(s) ==
  IF s.file.open
  THEN Stream(FlushedDisk(s.disk, s.file), SeekEndMinus2(s.disk, s.file))
  ELSE s

RewindIfWroteEventBytes(s) ==
  IF s.file.open /\ wrote_event_bytes_
  THEN Stream(FlushedDisk(s.disk, s.file), SeekEndMinus2(s.disk, s.file))
  ELSE s

\* AppendToFileThenDelete into the stream s; unreadable holds the paths whose
\* fopen for reading fails.
AppendToFileThenDelete(s, source_path, unreadable) ==
  IF ~s.disk.files[source_path].exists \/ source_path \in unreadable
  THEN s
  ELSE Stream(DeleteFile(s.disk, source_path),
              WriteToFile(s.file, s.disk.files[source_path].data).file)

\* The failures Initialize may meet.
InitializeFailures ==
  { F \in SUBSET {"open_final", "mkdir", "open_constants"} :
      /\ Cardinality(F) <= AnomaliesLeft
      /\ IsUnbounded => F \subseteq {"open_final"}
      /\ "open_final" \in F => F = {"open_final"}
      /\ "mkdir" \in F => F = {"mkdir"} }

\* Variant with a defect: the directory is created and nothing is written to
\* the final log file.
CreateInprogressDirectoryNoPlaceholder(s, fails) ==
  IF ~s.file.open \/ fails
  THEN s
  ELSE Stream([s.disk EXCEPT !.dir = TRUE], s.file)

\* CreateInprogressDirectory, given the final log stream.
CreateInprogressDirectory(s, fails) ==
  IF ~s.file.open \/ fails
  THEN s
  ELSE LET f == WriteToFile(s.file, kPlaceholder).file
           d == [s.disk EXCEPT !.dir = TRUE]
       IN Stream(FlushedDisk(d, f), FlushedFile(f))

Initialize ==
  /\ running = NoTask /\ task_queue # <<>> /\ Head(task_queue).op = "Initialize"
  /\ \E F \in InitializeFailures :
       LET final == OpenFileForWrite(disk, FinalLogPath, "open_final" \in F)
       IN /\ IF IsBounded
             THEN LET s == CreateInprogressDirectory(final, "mkdir" \in F)
                      c == OpenFileForWrite(s.disk, GetConstantsFilePath,
                                            "open_constants" \in F)
                      constants_file == WriteConstantsToFile(c.file)
                  IN /\ final_log_file_' = s.file
                     /\ disk' = FlushedDisk(c.disk, constants_file)
             ELSE /\ final_log_file_' = WriteConstantsToFile(final.file)
                  /\ disk' = final.disk
          /\ io_failures' = io_failures + Cardinality(F)
          /\ create_directory_failed' = ("mkdir" \in F)
  /\ task_queue' = Tail(task_queue)
  /\ UNCHANGED <<config_vars, observer_vars, queue_vars, running, local_file_queue,
                 file_writer, current_event_file_, current_event_file_size_,
                 current_event_file_number_, wrote_event_bytes_, pushed, written,
                 swapped, odd_events, encode_failures, stdio_flushes, stop_history,
                 dropped, written_to, polled_supplied, optional_callback>>

\* Variant with a defect: SwapQueue copies queue_ and leaves it as it was.
SwapQueueCopies == [local |-> queue_, queue |-> queue_, memory |-> memory_]

\* Variant with a defect: SwapQueue leaves memory_ as it was.
SwapQueueKeepsMemory == [local |-> queue_, queue |-> <<>>, memory |-> memory_]

\* WriteQueue::SwapQueue with an empty local queue.
SwapQueue == [local |-> queue_, queue |-> <<>>, memory |-> 0]

\* Flush and FlushThenStop up to the return of SwapQueue.
FlushSwapQueue ==
  /\ running = NoTask /\ task_queue # <<>>
  /\ Head(task_queue).op \in {"Flush", "FlushThenStop"}
  /\ local_file_queue' = SwapQueue.local
  /\ queue_' = SwapQueue.queue
  /\ memory_' = SwapQueue.memory
  /\ running' = IF SwapQueue.local = <<>> /\ Head(task_queue).op = "Flush"
                THEN NoTask ELSE Head(task_queue)
  /\ task_queue' = Tail(task_queue)
  /\ swapped' = Len(pushed)
  /\ UNCHANGED <<config_vars, observer_vars, writer_vars, disk, pushed, written,
                 anomaly_vars, stop_history, dropped, create_directory_failed,
                 written_to, polled_supplied, optional_callback>>

\* Variant with a defect: the size of the current event file is never looked at.
MustIncrementFirstOnly == current_event_file_number_ = 0

\* Variant with a defect: a file that has just reached the limit is not rotated.
MustIncrementAboveLimit ==
  current_event_file_number_ = 0
    \/ current_event_file_size_ > max_event_file_size_

\* Variant with a defect: the size is compared whatever the file number is.
MustIncrementReadsSize == current_event_file_size_ >= max_event_file_size_

\* Whether Flush opens the next event file before its next write.
MustIncrement ==
  current_event_file_number_ = 0
    \/ current_event_file_size_ >= max_event_file_size_

\* Variant with a defect: the size is set to 0 only when the fopen succeeded.
IncrementCurrentEventFileKeepsSize(d, fails) ==
  LET number == current_event_file_number_ + 1
      s == OpenFileForWrite(d, GetEventFilePath(FileNumberToIndex(number)), fails)
  IN [disk |-> FlushedDisk(s.disk, current_event_file_),
      file |-> s.file, number |-> number,
      size |-> IF s.file.open THEN 0 ELSE current_event_file_size_]

\* IncrementCurrentEventFile: the new handle is opened, then the old one closed.
IncrementCurrentEventFile(d, fails) ==
  LET number == current_event_file_number_ + 1
      s == OpenFileForWrite(d, GetEventFilePath(FileNumberToIndex(number)), fails)
  IN [disk |-> FlushedDisk(s.disk, current_event_file_),
      file |-> s.file, number |-> number, size |-> 0]

\* One turn of Flush's loop.  fails: the fopen of the next event file fails;
\* early: the C library writes the buffer out after the fwrite.
FlushWriteEvent(fails, early) ==
  /\ running # NoTask /\ local_file_queue # <<>>
  /\ LET event == Head(local_file_queue)
         line == EventJson(event) \o kEventSeparator
         increment == IsBounded /\ MustIncrement
         cur == IF increment
                THEN IncrementCurrentEventFile(disk, fails)
                ELSE [disk |-> disk, file |-> current_event_file_,
                      number |-> current_event_file_number_,
                      size |-> current_event_file_size_]
         w == WriteToFile(IF IsBounded THEN cur.file ELSE final_log_file_, line)
         bytes_written == w.n
         out == IF early THEN FlushedFile(w.file) ELSE w.file
     IN /\ fails => /\ increment
                    /\ AnomaliesLeft > 0
                    /\ CanOpenForWrite(disk, GetEventFilePath(
                                               FileNumberToIndex(cur.number)))
        /\ early => ~fails /\ bytes_written > 0 /\ AnomaliesLeft > 0
        /\ disk' = IF early THEN FlushedDisk(cur.disk, w.file) ELSE cur.disk
        /\ wrote_event_bytes_' = (wrote_event_bytes_ \/ bytes_written > 0)
        /\ IF IsBounded
           THEN /\ current_event_file_' = out
                /\ current_event_file_size_' = cur.size + bytes_written
                /\ current_event_file_number_' = cur.number
                /\ UNCHANGED final_log_file_
           ELSE /\ final_log_file_' = out
                /\ UNCHANGED <<current_event_file_, current_event_file_size_,
                               current_event_file_number_>>
        /\ written' = IF bytes_written > 0 THEN Append(written, event) ELSE written
        /\ written_to' = IF bytes_written > 0 THEN Append(written_to, cur.number)
                                             ELSE written_to
  /\ local_file_queue' = Tail(local_file_queue)
  /\ running' = IF Tail(local_file_queue) = <<>> /\ running.op = "Flush"
                THEN NoTask ELSE running
  /\ io_failures' = IF fails THEN io_failures + 1 ELSE io_failures
  /\ stdio_flushes' = IF early THEN stdio_flushes + 1 ELSE stdio_flushes
  /\ UNCHANGED <<config_vars, observer_vars, queue_vars, task_queue, file_writer,
                 pushed, swapped, odd_events, encode_failures, stop_history, dropped,
                 create_directory_failed, polled_supplied, optional_callback>>

\* The loop of StitchFinalLogFile over the event files, oldest first.
RECURSIVE AppendEventFiles(_, _, _, _)
AppendEventFiles(s, filenumber, end_filenumber, unreadable) ==
  IF filenumber < end_filenumber
  THEN AppendEventFiles(
         AppendToFileThenDelete(s, GetEventFilePath(FileNumberToIndex(filenumber)),
                                unreadable),
         filenumber + 1, end_filenumber, unreadable)
  ELSE s

\* The file numbers StitchFinalLogFile copies: begin_filenumber .. end - 1.
EndFilenumber == current_event_file_number_ + 1
\* Variant with a defect: the stitch starts at file number 0 while the file
\* numbers have not gone around.
BeginFilenumberFromZero ==
  IF current_event_file_number_ <= total_num_event_files_
  THEN 0
  ELSE EndFilenumber - total_num_event_files_

\* Variant with a defect: the stitch starts one file number too early once the
\* file numbers have gone around.
BeginFilenumberOneEarly ==
  IF current_event_file_number_ <= total_num_event_files_
  THEN 1
  ELSE EndFilenumber - total_num_event_files_ - 1
BeginFilenumber ==
  IF current_event_file_number_ <= total_num_event_files_
  THEN 1
  ELSE EndFilenumber - total_num_event_files_

\* StitchFinalLogFile on disk d up to its call of RewindIfWroteEventBytes: the
\* final log stream with the constants file and the event files appended.
StitchedEventFiles(d, fails, unreadable) ==
  LET d1 == FlushedDisk(d, current_event_file_)
      reopened == OpenFileForWrite(d1, FinalLogPath, fails)
      s0 == Stream(FlushedDisk(reopened.disk, final_log_file_), reopened.file)
      s1 == AppendToFileThenDelete(s0, GetConstantsFilePath, unreadable)
  IN AppendEventFiles(s1, BeginFilenumber, EndFilenumber, unreadable)

\* StitchFinalLogFile on disk d: the final log stream it leaves.
StitchFinalLogFile(d, fails, unreadable) ==
  LET s2 == StitchedEventFiles(d, fails, unreadable)
      s3 == RewindIfWroteEventBytes(s2)
      s4 == AppendToFileThenDelete(s3, GetClosingFilePath, unreadable)
  IN Stream(DeleteInprogressDirectory(s4.disk), s4.file)

\* FileWriter::Stop: the disk it leaves (both handles end up null).
StopDisk(polled_data_json, opens, unreadable) ==
  IF IsBounded
  THEN LET c == OpenFileForWrite(disk, GetClosingFilePath,
                                 "open_closing" \in opens)
           closing_file == WritePolledDataToFile(c.file, polled_data_json)
           s == StitchFinalLogFile(FlushedDisk(c.disk, closing_file),
                                   "reopen_final" \in opens, unreadable)
       IN FlushedDisk(s.disk, s.file)
  ELSE LET s == RewindIfWroteEventBytes(Stream(disk, final_log_file_))
       IN FlushedDisk(s.disk, WritePolledDataToFile(s.file, polled_data_json))

\* The subsets of S of at most n elements.
RECURSIVE SubsetsUpTo(_, _)
SubsetsUpTo(S, n) ==
  IF n <= 0 THEN {{}}
  ELSE LET smaller == SubsetsUpTo(S, n - 1)
       IN smaller \cup {T \cup {x} : T \in smaller, x \in S}

\* What Stop may meet: failing fopen calls for writing (opens) and for
\* reading (reads), and the encoder failing on the polled data.
StopFailures ==
  { x \in [opens : SUBSET {"open_closing", "reopen_final"},
           reads : SubsetsUpTo({p \in InprogressPaths :
                                  disk.files[p].exists \/ p = GetClosingFilePath},
                               AnomaliesLeft),
           encoder_fails : BOOLEAN] :
      /\ Cardinality(x.opens) + Cardinality(x.reads)
           + (IF x.encoder_fails THEN 1 ELSE 0) <= AnomaliesLeft
      /\ x.encoder_fails => running.polled = "value"
      /\ IsUnbounded => x.opens = {} /\ x.reads = {}
      /\ ~disk.dir => "open_closing" \notin x.opens /\ x.reads = {}
      /\ "open_closing" \in x.opens => GetClosingFilePath \notin x.reads }

\* The Stop half of FlushThenStop, once Flush's loop has ended.  When the task
\* was posted with a reply, the reply is posted to the caller as the task returns.
Stop ==
  /\ running.op = "FlushThenStop" /\ local_file_queue = <<>>
  /\ \E x \in StopFailures :
       LET polled_data_json ==
             IF running.polled = "value" /\ ~x.encoder_fails THEN PolledJson
                                                             ELSE <<>>
       IN /\ disk' = StopDisk(polled_data_json, x.opens, x.reads)
          /\ stop_polled' = polled_data_json
          /\ io_failures' = io_failures + Cardinality(x.opens) + Cardinality(x.reads)
          /\ encode_failures' = encode_failures + (IF x.encoder_fails THEN 1 ELSE 0)
  /\ final_log_file_' = NullFile
  /\ current_event_file_' = IF IsBounded THEN NullFile ELSE current_event_file_
  /\ running' = NoTask
  /\ stops' = stops + 1
  /\ stopped_text' = disk'.files[FinalLogPath].data
  /\ polled_supplied' = running.polled
  /\ optional_callback' = IF optional_callback = "bound" THEN "posted"
                                                          ELSE optional_callback
  /\ UNCHANGED <<config_vars, observer_vars, queue_vars, task_queue, local_file_queue,
                 file_writer, current_event_file_size_, current_event_file_number_,
                 wrote_event_bytes_, pushed, written, swapped, odd_events,
                 stdio_flushes, dropped, create_directory_failed, written_to>>

\* Variant with a defect: the final log file is not deleted.
DeleteAllFilesKeepsFinalLog ==
  LET d1 == FlushedDisk(disk, final_log_file_)
  IN IF IsBounded
     THEN DeleteInprogressDirectory(FlushedDisk(d1, current_event_file_))
     ELSE d1

\* FileWriter::DeleteAllFiles: the disk it leaves.
DeleteAllFilesDisk ==
  LET d1 == FlushedDisk(disk, final_log_file_)
      d2 == IF IsBounded
            THEN DeleteInprogressDirectory(FlushedDisk(d1, current_event_file_))
            ELSE d1
  IN DeleteFile(d2, FinalLogPath)

DeleteAllFiles ==
  /\ running = NoTask /\ task_queue # <<>> /\ Head(task_queue).op = "DeleteAllFiles"
  /\ disk' = DeleteAllFilesDisk
  /\ final_log_file_' = NullFile
  /\ current_event_file_' = IF IsBounded THEN NullFile ELSE current_event_file_
  /\ task_queue' = Tail(task_queue)
  /\ UNCHANGED <<config_vars, observer_vars, queue_vars, running, local_file_queue,
                 file_writer, current_event_file_size_, current_event_file_number_,
                 wrote_event_bytes_, pushed, written, swapped, anomaly_vars,
                 stop_history, dropped, create_directory_failed, written_to,
                 polled_supplied, optional_callback>>

\* DeleteSoon: ~FileWriter closes whatever handles are still open.
DeleteFileWriter ==
  /\ running = NoTask /\ task_queue # <<>> /\ Head(task_queue).op = "DeleteSoon"
  /\ file_writer' = "deleted"
  /\ disk' = FlushedDisk(FlushedDisk(disk, current_event_file_), final_log_file_)
  /\ final_log_file_' = NullFile
  /\ current_event_file_' = NullFile
  /\ task_queue' = Tail(task_queue)
  /\ UNCHANGED <<config_vars, observer_vars, queue_vars, running, local_file_queue,
                 current_event_file_size_, current_event_file_number_,
                 wrote_event_bytes_, pushed, written, swapped, anomaly_vars,
                 stop_history, dropped, create_directory_failed, written_to,
                 polled_supplied, optional_callback>>

\* A second call of FileWriter::Stop after the first has returned.
StopAgain(polled_data_json) ==
  /\ running = NoTask /\ file_writer = "alive" /\ stops = 1
  /\ disk' = StopDisk(polled_data_json, {}, {})
  /\ final_log_file_' = NullFile
  /\ current_event_file_' = IF IsBounded THEN NullFile ELSE current_event_file_
  /\ stops' = stops + 1
  /\ UNCHANGED <<config_vars, observer_vars, queue_vars, task_queue, running,
                 local_file_queue, file_writer, current_event_file_size_,
                 current_event_file_number_, wrote_event_bytes_, pushed, written,
                 swapped, anomaly_vars, stop_polled, stopped_text, dropped,
                 create_directory_failed, written_to, polled_supplied,
                 optional_callback>>

\* ----------------------------------------------------------- specifications
Next ==
  \/ StartObserving
  \/ OnAddEntryEncodeFails
  \/ \E len \in OrdinarySize \cup OddSizes : OnAddEntry(len)
  \/ OnAddEntryPostFlush
  \/ \E polled_data \in PolledChoices : StopObserving(polled_data)
  \/ DestroyObserver
  \/ Initialize
  \/ FlushSwapQueue
  \/ \E fails, early \in BOOLEAN : FlushWriteEvent(fails, early)
  \/ Stop
  \/ DeleteAllFiles
  \/ DeleteFileWriter

Spec == Init /\ [][Next]_vars

\* The same program created with RingConfig, logging events of the ordinary
\* size, with every fopen and fwrite of Flush succeeding.
NextRing ==
  \/ StartObserving
  \/ \E len \in OrdinarySize : OnAddEntry(len)
  \/ OnAddEntryPostFlush
  \/ \E polled_data \in PolledChoices : StopObserving(polled_data)
  \/ DestroyObserver
  \/ Initialize
  \/ FlushSwapQueue
  \/ FlushWriteEvent(FALSE, FALSE)
  \/ Stop
  \/ DeleteAllFiles
  \/ DeleteFileWriter
SpecRing == InitRing /\ [][NextRing]_vars

\* The same program with FileWriter::Stop called a second time.
NextStopTwice ==
  Next \/ \E polled_data_json \in {<<>>, PolledJson} : StopAgain(polled_data_json)
SpecStopTwice == Init /\ [][NextStopTwice]_vars

\* The same program with StopObserving given a callback, logging events of
\* the ordinary size.
NextOnDone ==
  \/ StartObserving
  \/ OnAddEntryEncodeFails
  \/ \E len \in OrdinarySize : OnAddEntry(len)
  \/ OnAddEntryPostFlush
  \/ \E polled_data \in PolledChoices : StopObservingWithCallback(polled_data)
  \/ DestroyObserver
  \/ Initialize
  \/ FlushSwapQueue
  \/ \E fails, early \in BOOLEAN : FlushWriteEvent(fails, early)
  \/ Stop
  \/ DeleteAllFiles
  \/ DeleteFileWriter
  \/ RunReply

\* The file task runner has a step to take: a task is posted or one is running.
\* (Every task at the head of the queue can start, and a running Flush or
\* FlushThenStop can always take its next step.)
FileTaskRunnerBusy == running # NoTask \/ task_queue # <<>>

\* Weak fairness of the file task runner's steps, stated with the predicate that
\* says one is enabled (only finitely many tasks are ever posted), and weak
\* fairness of the reply on the caller's task runner.
SpecOnDone ==
  Init /\ [][NextOnDone]_vars /\ []<>~FileTaskRunnerBusy /\ WF_vars(RunReply)

\* ----------------------------------------------------- reading the final file
\* What a JSON reader finds in a log file text: the fixed prologue, the
\* elements of the events array (objects "{...}" separated by "," with
\* optional whitespace around them), and the epilogue after "]".
FinalLog == disk.files[FinalLogPath]
PrologueText == kConstantsKey \o ConstantsJson \o kEventsKey
EpilogueText(polled_data_json) ==
  kArrayClose
    \o (IF polled_data_json # <<>>
        THEN kPolledDataKey \o polled_data_json \o kNewline ELSE <<>>)
    \o kLogClose

Whitespace == {" ", "\n"}
Structural == {"{", "}", "[", "]", ",", ":", "\"", "\\0"} \cup Whitespace

HasPrefix(t, prefix) ==
  Len(t) >= Len(prefix) /\ SubSeq(t, 1, Len(prefix)) = prefix
Rest(t, i) == SubSeq(t, i, Len(t))

\* The first position from i on that holds no whitespace (Len(t) + 1 if none).
RECURSIVE SkipWhitespace(_, _)
SkipWhitespace(t, i) ==
  IF i <= Len(t) /\ t[i] \in Whitespace THEN SkipWhitespace(t, i + 1) ELSE i

\* The position of the first "}" from i on (0 if none).
RECURSIVE FindObjectEnd(_, _)
FindObjectEnd(t, i) ==
  IF i > Len(t) THEN 0
  ELSE IF t[i] = "}" THEN i
  ELSE IF t[i] \in Structural THEN 0
  ELSE FindObjectEnd(t, i + 1)

ParseFailure == [ok |-> FALSE, events |-> <<>>, next |-> 0]

\* The elements of the array whose text starts at i (after "["): .events, and
\* .next, the position after the closing "]".
RECURSIVE ParseElements(_, _, _, _)
ParseElements(t, i, acc, after_comma) ==
  LET j == SkipWhitespace(t, i)
  IN IF j > Len(t) THEN ParseFailure
     ELSE IF t[j] = "]"
     THEN IF after_comma THEN ParseFailure
          ELSE [ok |-> TRUE, events |-> acc, next |-> j + 1]
     ELSE IF t[j] = "{" /\ (acc = <<>> \/ after_comma)
     THEN LET k == FindObjectEnd(t, j + 1)
              m == SkipWhitespace(t, k + 1)
          IN IF k = 0 \/ m > Len(t) THEN ParseFailure
             ELSE IF t[m] = ","
             THEN ParseElements(t, m + 1, Append(acc, SubSeq(t, j, k)), TRUE)
             ELSE ParseElements(t, m, Append(acc, SubSeq(t, j, k)), FALSE)
     ELSE ParseFailure

\* The log file text t as a JSON reader sees it: .ok when it is one object with
\* the keys constants and events and, if .polled, polledData.
ParseLog(t) ==
  IF ~HasPrefix(t, PrologueText) THEN [ok |-> FALSE, events |-> <<>>, polled |-> FALSE]
  ELSE LET a == ParseElements(t, Len(PrologueText) + 1, <<>>, FALSE)
           tail == Rest(t, a.next - 1)
       IN IF ~a.ok THEN [ok |-> FALSE, events |-> <<>>, polled |-> FALSE]
          ELSE [ok |-> tail \in {EpilogueText(<<>>), EpilogueText(PolledJson)},
                events |-> a.events,
                polled |-> tail = EpilogueText(PolledJson)]

RECURSIVE EventTexts(_)
EventTexts(events) ==
  IF events = <<>> THEN <<>>
  ELSE <<EventJson(Head(events))>> \o EventTexts(Tail(events))

\* seq is sub with elements left out (order kept).
RECURSIVE IsSubsequence(_, _)
IsSubsequence(sub, seq) ==
  IF sub = <<>> THEN TRUE
  ELSE IF seq = <<>> THEN FALSE
  ELSE IF Head(sub) = Head(seq) THEN IsSubsequence(Tail(sub), Tail(seq))
  ELSE IsSubsequence(sub, Tail(seq))

IsSuffix(suffix, seq) ==
  Len(suffix) <= Len(seq)
    /\ SubSeq(seq, Len(seq) - Len(suffix) + 1, Len(seq)) = suffix

\* A run in which the first Stop has returned and nothing failed: no fopen or
\* CreateDirectory failure, no value the encoder failed on.
Stopped == stops >= 1
NothingFailed == io_failures = 0 /\ encode_failures = 0

\* A run without irregularities of the environment: nothing failed and the C
\* library wrote no buffer out by itself (events may still have any size).
QuietRun == NothingFailed /\ stdio_flushes = 0

\* The events array of the final file, as a JSON reader returns it.
FinalEvents == ParseLog(FinalLog.data).events

\* ------------------------------------------------------------------ claims
\* C1: after every run that reaches Stop the final file is a single JSON
\* object with the keys constants, events and optionally polledData: the
\* prologue, the event records, and the epilogue beginning with "]".
C1_FinalFileIsJson ==
  (Stopped /\ QuietRun) => (FinalLog.exists /\ ParseLog(FinalLog.data).ok)

\* The position of the first byte c of t from i on (0 if none).
RECURSIVE FirstIndexOf(_, _, _)
FirstIndexOf(t, c, i) ==
  IF i > Len(t) THEN 0
  ELSE IF t[i] = c THEN i
  ELSE FirstIndexOf(t, c, i + 1)

\* C2: after Stop the events array of the final file does not end with a
\* trailing comma: the last event record is immediately followed by "]", and
\* every other event record is followed by ",\n".
C2_NoTrailingComma ==
  (Stopped /\ QuietRun) =>
    LET t == FinalLog.data
        close == FirstIndexOf(t, "]", 1)
    IN /\ FinalLog.exists
       /\ close > Len(PrologueText)
       /\ t[close - 1] # ","
       /\ SubSeq(t, close - 2, close - 1) # kEventSeparator
       /\ written # <<>> => t[close - 1] = "}"
       /\ \A k \in (Len(PrologueText) + 1)..(close - 2) :
            t[k] = "}" => SubSeq(t, k + 1, k + 2) = kEventSeparator

\* C3: round trip: the events read back from the final file are, in order,
\* events that were pushed, in push order; in unbounded mode without failures
\* they are exactly the pushed events, each once.
C3_RoundTrip ==
  (Stopped /\ QuietRun /\ ParseLog(FinalLog.data).ok) =>
    /\ IsSubsequence(FinalEvents, EventTexts(pushed))
    /\ IsUnbounded => FinalEvents = EventTexts(pushed)

\* C4: the queue's byte counter never exceeds its hard limit, and in bounded
\* mode the bytes held in the queue never exceed twice the total budget.
C4_QueueBound ==
  /\ memory_ <= memory_max_
  /\ memory_ = SumSizes(queue_)
  /\ IsBounded => SumSizes(queue_) <= 2 * max_total_size

\* C4's case: in bounded mode the queue overflowed and still holds events.
C4_Witness ==
  /\ IsBounded
  /\ queue_ # <<>>
  /\ Len(queue_) < Len(pushed) - swapped

\* The longest suffix of records whose total size is within the queue's limit.
RECURSIVE LongestFittingSuffix(_)
LongestFittingSuffix(records) ==
  IF SumSizes(records) <= memory_max_ THEN records
  ELSE LongestFittingSuffix(Tail(records))

\* The events pushed since the last SwapQueue.
PushedSinceSwap == SubSeq(pushed, swapped + 1, Len(pushed))

\* C5: oldest-first drop: the queue holds, in push order, exactly the longest
\* suffix of the events pushed since the last swap whose total size is within
\* the limit, and a push returns the length of that suffix (OnAddEntry goes on
\* to post a Flush exactly when that length is kNumWriteQueueEvents).
C5_OldestFirstDrop ==
  /\ [](queue_ = LongestFittingSuffix(PushedSinceSwap))
  /\ [][Len(pushed') = Len(pushed) + 1 =>
          (posting' <=>
             Len(LongestFittingSuffix(SubSeq(pushed', swapped' + 1, Len(pushed'))))
               = kNumWriteQueueEvents)]_vars

\* C5's case: after an overflow the queue holds two or more events, fewer than
\* were pushed since the last swap.
C5_Witness ==
  /\ Len(queue_) >= 2
  /\ Len(queue_) < Len(PushedSinceSwap)

\* C6: in bounded mode the events of the final file are the most recent events
\* pushed: a contiguous suffix of the push sequence.
C6_BoundedKeepsSuffix ==
  (Stopped /\ QuietRun /\ IsBounded /\ ParseLog(FinalLog.data).ok) =>
    IsSuffix(FinalEvents, EventTexts(pushed))

\* The event files of disk d, their number and the sum of their sizes.
EventFilesOn(d) == {p \in EventFilePaths : d.files[p].exists}
RECURSIVE SumFileSizes(_, _)
SumFileSizes(d, paths) ==
  IF paths = {} THEN 0
  ELSE LET p == CHOOSE q \in paths : TRUE
       IN Len(d.files[p].data) + SumFileSizes(d, paths \ {p})
EventFileBytes(d) == SumFileSizes(d, EventFilesOn(d))

\* The largest encoded event pushed so far (0 if none).
RECURSIVE MaxSize(_)
MaxSize(events) ==
  IF events = <<>> THEN 0
  ELSE LET m == MaxSize(Tail(events))
       IN IF Head(events).len > m THEN Head(events).len ELSE m

Running == IsBounded /\ stops = 0

\* C7 as stated: while running in bounded mode there are at most
\* total_num_event_files_ event files and the sum of their sizes is at most
\* N * (S/N + max_event_size), max_event_size the largest encoded event.
C7_DiskBoundAsStated ==
  Running =>
    /\ Cardinality(EventFilesOn(disk)) <= total_num_event_files_
    /\ EventFileBytes(disk)
         <= total_num_event_files_ * (max_event_file_size_ + MaxSize(pushed))

\* C7, amended: each record takes its event's bytes and the two bytes of its
\* separator, so the sum of the sizes is at most
\* N * (S/N + max_event_size + 2); this holds for the files as they are on disk
\* and as they will be once the open event file's buffer is written out.
C7_DiskBound ==
  Running =>
    LET flushed == FlushedDisk(disk, current_event_file_)
        bound == total_num_event_files_
                   * (max_event_file_size_ + MaxSize(pushed) + Len(kEventSeparator))
    IN /\ Cardinality(EventFilesOn(disk)) <= total_num_event_files_
       /\ EventFileBytes(disk) <= bound
       /\ EventFileBytes(flushed) <= bound

\* C7's case: every event file of the ring is on disk and together they hold
\* more than the total budget.
C7_Witness ==
  /\ Running
  /\ Cardinality(EventFilesOn(disk)) = total_num_event_files_
  /\ EventFileBytes(disk) > max_total_size

\* Nothing of the log is left on disk.
NothingOnDisk == ~disk.dir /\ \A p \in Paths : ~disk.files[p].exists
AllTasksRan == task_queue = <<>> /\ running = NoTask

\* C8: when a started observer is destroyed without StopObserving, then once
\* the file task runner has run every posted task neither the final file nor
\* the in-progress directory nor any file in it exists.
C8_DestroyedWithoutStopLeavesNothing ==
  (observer = "destroyed" /\ start_called /\ ~stop_called /\ AllTasksRan)
    => NothingOnDisk

\* C8's case: the observer was started, events reached the disk, the observer
\* was destroyed without StopObserving, and every task has run.
C8_Witness ==
  /\ observer = "destroyed" /\ start_called /\ ~stop_called /\ AllTasksRan
  /\ written # <<>>

\* C9: whenever StopObserving was not called before the observer is destroyed,
\* started or not, the destructor posts DeleteAllFiles, so that after all tasks
\* have run the files created by Initialize are gone.
C9_DestroyedWithoutStopDeletes ==
  (observer = "destroyed" /\ ~stop_called /\ AllTasksRan) => NothingOnDisk

\* C10: a second FileWriter::Stop after the first has returned leaves the
\* content of the final file unchanged, in both modes.
C10_SecondStopIsNoOp ==
  (stops = 2 /\ NothingFailed) => FinalLog.data = stopped_text

\* The positions in the task queue of the tasks of kind op.
Pending(op) == {i \in 1..Len(task_queue) : task_queue[i].op = op}

\* C11: StopObserving followed by the destruction of the observer is the same
\* as StopObserving alone: the destructor posts no DeleteAllFiles, only the
\* deletion of the file writer, which runs after FlushThenStop, and the final
\* file as Stop left it stays on disk.
C11_DestroyAfterStopKeepsFinalFile ==
  (stop_called /\ observer = "destroyed") =>
    /\ Pending("DeleteAllFiles") = {}
    /\ \A i \in Pending("FlushThenStop") : \A j \in Pending("DeleteSoon") : i < j
    /\ file_writer = "deleted" => stops = 1
    /\ stops = 1 =>
         /\ FinalLog.data = stopped_text
         /\ io_failures = 0 => FinalLog.exists

\* C11's case: events were logged, StopObserving was called, the observer was
\* destroyed, and every task including the writer's deletion has run.
C11_Witness ==
  /\ stop_called /\ observer = "destroyed" /\ AllTasksRan
  /\ file_writer = "deleted"
  /\ Len(FinalEvents) >= 2

\* The ids of the events of a sequence.
Ids(events) == {events[i].id : i \in 1..Len(events)}

\* C12: StopObserving unsubscribes first and then posts FlushThenStop, which the
\* file task runner runs after Initialize and after every Flush posted before
\* it; once Stop has run every event pushed before StopObserving that overflow
\* did not drop has been taken from the queue (and, when no open failed, written
\* to a file), and no Flush task is pending or running.
C12_StopObservingLinearizable ==
  /\ stop_called => ~net_log /\ ~posting
  /\ \A i \in Pending("FlushThenStop") :
       \A j \in Pending("Initialize") \cup Pending("Flush") : j < i
  /\ running.op = "FlushThenStop" =>
       /\ current_event_file_number_ # Uninitialized
       /\ Pending("Initialize") \cup Pending("Flush") = {}
       /\ swapped = Len(pushed)
  /\ stops >= 1 =>
       /\ current_event_file_number_ # Uninitialized
       /\ queue_ = <<>> /\ local_file_queue = <<>> /\ swapped = Len(pushed)
       /\ Ids(written) \subseteq Ids(pushed) \ dropped
       /\ io_failures = 0 => Ids(written) = Ids(pushed) \ dropped
       /\ Pending("Flush") = {} /\ running.op # "Flush"

\* C12's case: a Flush was posted and events were pushed after it, some were
\* dropped by overflow, StopObserving was called and Stop has run.
C12_Witness ==
  /\ stops = 1 /\ io_failures = 0
  /\ dropped # {}
  /\ Len(written) >= 2
  /\ Len(pushed) > kNumWriteQueueEvents

\* The Flush tasks posted or about to be posted that have not started to run.
PendingFlushes == Cardinality(Pending("Flush")) + (IF posting THEN 1 ELSE 0)

\* C13: posting a Flush exactly when the length after the push equals
\* kNumWriteQueueEvents leaves at most one Flush task posted and not yet run
\* between two drains of the queue, whatever the queue limit and the sizes of
\* the events.
C13_AtMostOnePendingFlush == PendingFlushes <= 1

\* C14: in bounded mode, when CreateDirectory fails in Initialize, Stop still
\* completes, and after Stop the final file holds the placeholder text and
\* nothing else, and no other file and no directory is left on disk.
C14_DirectoryFailureLeavesPlaceholder ==
  (Stopped /\ IsBounded /\ create_directory_failed) =>
    /\ FinalLog.exists /\ FinalLog.data = kPlaceholder
    /\ ~disk.dir
    /\ \A p \in InprogressPaths : ~disk.files[p].exists

\* The file numbers StitchFinalLogFile copies when the current one is c.
StitchWindow(c) == {fn \in 1..c : fn + total_num_event_files_ > c}

\* The lines Flush wrote for the events written under the file numbers fns.
RECURSIVE LinesOf(_, _, _)
LinesOf(events, numbers, fns) ==
  IF events = <<>> THEN <<>>
  ELSE (IF Head(numbers) \in fns THEN EventJson(Head(events)) \o kEventSeparator
                                 ELSE <<>>)
         \o LinesOf(Tail(events), Tail(numbers), fns)

\* text without its last two characters.
WithoutLastTwo(text) == SubSeq(text, 1, Len(text) - 2)

\* C15: file numbers start at 1 and grow by one per rotation; file number fn
\* is written at index (fn - 1) mod N; with current file number c the files of
\* the file numbers max(1, c-N+1) .. c have pairwise distinct indices and are
\* exactly the event files on disk, and Stop copies them oldest first, each
\* holding only the events written under its file number.
C15_RingAndStitchWindow ==
  (IsBounded /\ io_failures = 0 /\ current_event_file_number_ # Uninitialized) =>
    LET c == current_event_file_number_
        N == total_num_event_files_
    IN /\ written_to # <<>> => written_to[1] = 1 /\ written_to[Len(written_to)] = c
       /\ \A i \in 1..(Len(written_to) - 1) :
            written_to[i + 1] \in {written_to[i], written_to[i] + 1}
       /\ current_event_file_.open =>
            current_event_file_.path = GetEventFilePath((c - 1) % N)
       /\ \A a, b \in StitchWindow(c) :
            a # b => FileNumberToIndex(a) # FileNumberToIndex(b)
       /\ (stops = 0 /\ disk.dir) =>
            EventFilesOn(disk)
              = {GetEventFilePath(FileNumberToIndex(fn)) : fn \in StitchWindow(c)}
       /\ (stops = 1 /\ written # <<>>) =>
            stopped_text
              = PrologueText
                  \o WithoutLastTwo(LinesOf(written, written_to, StitchWindow(c)))
                  \o EpilogueText(stop_polled)

\* The records joined by ",\n".
RECURSIVE JoinRecords(_)
JoinRecords(texts) ==
  IF texts = <<>> THEN <<>>
  ELSE IF Len(texts) = 1 THEN Head(texts)
  ELSE Head(texts) \o kEventSeparator \o JoinRecords(Tail(texts))

\* An unbounded run that reached Stop with no failed open and no polledData
\* clause written.
UnboundedPlainStop ==
  Stopped /\ IsUnbounded /\ io_failures = 0 /\ stop_polled = <<>>

\* C16 as stated: in unbounded mode, when no polledData clause is written, the
\* final text after Stop is the prologue, the events joined by ",\n", then "]",
\* a newline, and "}" newline.
C16_FinalTextAsStated ==
  UnboundedPlainStop =>
    FinalLog.data = PrologueText \o JoinRecords(EventTexts(pushed))
                      \o kArrayClose \o kNewline \o kLogClose

\* C16, amended: in unbounded mode, when no polledData clause is written, the
\* final text after Stop is the prologue, the events joined by ",\n", then "]"
\* and, with nothing in between, "}" newline.
C16_FinalText ==
  UnboundedPlainStop =>
    FinalLog.data = PrologueText \o JoinRecords(EventTexts(pushed))
                      \o kArrayClose \o kLogClose

\* C16's case: three events, no polled data, unbounded mode, Stop has run.
C16_Witness ==
  /\ UnboundedPlainStop
  /\ Len(pushed) = 3
  /\ stop_called /\ AllTasksRan

\* sub occurs in text.
Contains(text, sub) ==
  \E i \in 1..(Len(text) - Len(sub) + 1) : SubSeq(text, i, i + Len(sub) - 1) = sub

\* The key "polledData" with its quotes.
PolledDataName == SubSeq(kPolledDataKey, 3, 14)

\* C17: the final file ends with "]" followed by "}\n", with the clause
\* ',\n"polledData": <json>\n' between them exactly when polled data was given
\* to Stop and the encoder wrote a non-empty string for it; without polled data
\* the final file has no polledData key.
C17_Epilogue ==
  (stops = 1 /\ io_failures = 0) =>
    LET clause == polled_supplied = "value" /\ stop_polled # <<>>
        epilogue == kArrayClose
                      \o (IF clause THEN kPolledDataKey \o PolledJson \o kNewline
                                    ELSE <<>>)
                      \o kLogClose
        text == FinalLog.data
    IN /\ IsSuffix(epilogue, text)
       /\ ~Contains(SubSeq(text, 1, Len(text) - Len(epilogue)), kArrayClose)
       /\ Contains(text, PolledDataName) <=> clause
       /\ polled_supplied = "none" => stop_polled = <<>>

\* C17's case: Stop was given polled data and wrote the clause after events.
C17_Witness ==
  /\ stops = 1 /\ io_failures = 0
  /\ polled_supplied = "value" /\ stop_polled = PolledJson
  /\ written # <<>>
  /\ Contains(FinalLog.data, PolledDataName)

\* C18: when Stop is reached with no event written, wrote_event_bytes_ is false
\* and no seek-back happens: the final file is the whole prologue followed by
\* the epilogue, its events array is empty, and in bounded mode the file number
\* is still 0 and the stitch window is empty.
C18_ZeroEvents ==
  (stops = 1 /\ written = <<>> /\ io_failures = 0) =>
    /\ ~wrote_event_bytes_
    /\ FinalLog.data = PrologueText \o EpilogueText(stop_polled)
    /\ ParseLog(FinalLog.data).ok /\ FinalEvents = <<>>
    /\ IsBounded =>
         /\ current_event_file_number_ = 0
         /\ StitchWindow(current_event_file_number_) = {}
         /\ BeginFilenumber = EndFilenumber

\* C18's case in bounded mode: Stop has run with nothing written.
C18_Witness ==
  /\ stops = 1 /\ written = <<>> /\ io_failures = 0
  /\ IsBounded /\ AllTasksRan
  /\ FinalLog.exists

\* C18's case in unbounded mode.
C18_WitnessUnbounded ==
  /\ stops = 1 /\ written = <<>> /\ io_failures = 0
  /\ IsUnbounded /\ AllTasksRan

\* C19: a callback given to StopObserving is invoked only after the
\* FlushThenStop task has completed: the queue is drained, the final file is
\* written and closed and, in bounded mode, the in-progress directory is gone;
\* and it is invoked, once.
C19_OnDoneAfterStop ==
  /\ [](optional_callback \in {"posted", "run"} =>
          /\ stops = 1 /\ running.op # "FlushThenStop"
          /\ Pending("FlushThenStop") = {}
          /\ queue_ = <<>> /\ local_file_queue = <<>>
          /\ ~final_log_file_.open
          /\ FinalLog.data = stopped_text
          /\ IsBounded => ~disk.dir /\ \A p \in InprogressPaths : ~disk.files[p].exists)
  /\ [][optional_callback = "run" => optional_callback' = "run"]_vars
  /\ (optional_callback = "bound") ~> (optional_callback = "run")

\* C19's case: the callback has run after a Stop that wrote events.
C19_Witness ==
  /\ optional_callback = "run"
  /\ written # <<>> /\ io_failures = 0 /\ FinalLog.exists

\* No task of the file writer has run yet.
NothingRan ==
  /\ running = NoTask /\ file_writer = "alive"
  /\ disk = EmptyDisk /\ swapped = 0 /\ stops = 0 /\ written = <<>>

\* C20: the file writer's operations run as tasks of the one file task runner,
\* in the order posted: Initialize runs before every other task, the deletion
\* of the writer is the last task, and no task is pending or running once the
\* writer is deleted, whether the observer was stopped and destroyed, destroyed
\* without StopObserving, or destroyed without StartObserving.
C20_SingleWriterLifetime ==
  /\ Pending("Initialize") \subseteq {1}
  /\ Pending("Initialize") # {} => NothingRan
  /\ Pending("DeleteSoon") \subseteq {Len(task_queue)}
  /\ \A i \in Pending("DeleteAllFiles") : task_queue[i + 1].op = "DeleteSoon"
  /\ \A i \in Pending("Flush") : \A j \in Pending("FlushThenStop") : i < j
  /\ running # NoTask => file_writer = "alive"
  /\ file_writer = "deleted" =>
       /\ observer = "destroyed"
       /\ task_queue = <<>> /\ running = NoTask /\ local_file_queue = <<>>
       /\ ~final_log_file_.open /\ ~current_event_file_.open
  /\ (observer = "destroyed" /\ file_writer = "alive") => Pending("DeleteSoon") # {}

\* C20's case: an observer that logged and was stopped and destroyed, its
\* writer deleted after every other task.
C20_Witness ==
  /\ file_writer = "deleted" /\ start_called /\ stops = 1
  /\ written # <<>>

\* C20's other lifecycles: destroyed without StopObserving, and destroyed
\* without StartObserving.
C20_WitnessNoStop ==
  file_writer = "deleted" /\ start_called /\ ~stop_called /\ swapped > 0
C20_WitnessNoStart ==
  file_writer = "deleted" /\ ~start_called

\* A step that writes to or opens, closes or deletes a file.
FileIO ==
  \/ disk' # disk
  \/ final_log_file_' # final_log_file_
  \/ current_event_file_' # current_event_file_

\* A step inside AddEntryToQueue or SwapQueue, the two places that hold lock_.
HoldsLock ==
  \/ queue_' # queue_ \/ memory_' # memory_
  \/ pushed' # pushed
  \/ swapped' # swapped

\* Flush is inside its loop, writing the events of its local queue.
DrainInProgress == running # NoTask /\ local_file_queue # <<>>

\* C21: lock_ is never held while file I/O is performed: no step does both, the
\* writes of Flush come after SwapQueue has returned, and while Flush writes a
\* subscribed producer can push.
C21_NoLockAcrossIO ==
  /\ [][~(FileIO /\ HoldsLock)]_vars
  /\ [][written' # written => (queue_' = queue_ /\ memory_' = memory_)]_vars
  /\ []((DrainInProgress /\ net_log /\ ~posting /\ Len(pushed) < EventBound)
          => ENABLED OnAddEntry(3))

\* C21's case: an event was pushed while Flush was writing its local queue.
C21_Witness ==
  /\ DrainInProgress
  /\ Len(pushed) > swapped
  /\ written # <<>>

\* A turn of Flush's loop: the event at the head of the local queue is taken.
WritesEvent ==
  /\ running # NoTask /\ local_file_queue # <<>>
  /\ local_file_queue' = Tail(local_file_queue)

\* The text of file f as it will be once its buffer is written out, up to the
\* position of the stream.
TextUpToPosition(d, f) ==
  SubSeq(FlushedDisk(d, f).files[f.path].data, 1, f.off + Len(f.buf))

\* C22: in bounded mode the event file is rotated exactly when an event is
\* about to be written and the file number is 0 or the size of the current file
\* has reached max_event_file_size_; the event, whatever its size, is then
\* written whole into the one current file, so that a file is never rotated in
\* the middle of a record.
C22_SoftChunkLimit ==
  /\ [][(IsBounded /\ WritesEvent) =>
          LET rotate == current_event_file_number_ = 0
                          \/ current_event_file_size_ >= max_event_file_size_
              line == EventJson(Head(local_file_queue)) \o kEventSeparator
          IN /\ current_event_file_number_'
                  = current_event_file_number_ + (IF rotate THEN 1 ELSE 0)
             /\ current_event_file_'.open =>
                  /\ current_event_file_size_'
                       = (IF rotate THEN 0 ELSE current_event_file_size_) + Len(line)
                  /\ IsSuffix(line, TextUpToPosition(disk', current_event_file_'))
                  /\ rotate => TextUpToPosition(disk', current_event_file_') = line]_vars
  /\ [][current_event_file_number_' # current_event_file_number_ => WritesEvent]_vars

\* C22's case: an event larger than max_event_file_size_ was written into a
\* file, and the next event went to the next file.
C22_Witness ==
  /\ IsBounded /\ io_failures = 0
  /\ Len(written) >= 2
  /\ written[Len(written) - 1].len > max_event_file_size_
  /\ written_to[Len(written)] = written_to[Len(written) - 1] + 1

\* A bounded observer with a single event file.
OneEventFile == IsBounded /\ total_num_event_files_ = 1

\* C23 as stated: with one event file only the file of index 0 exists and the
\* stitch window is the file numbers 1 .. 1, however many events were written.
C23_OneFileWindowAsStated ==
  (OneEventFile /\ written # <<>>) =>
    /\ EventFilesOn(disk) \subseteq {GetEventFilePath(0)}
    /\ BeginFilenumber = 1 /\ EndFilenumber - 1 = 1

\* C23, amended: with one event file only the file of index 0 ever exists, and
\* the stitch window is the one file number c .. c, c being the current file
\* number, which maps to index 0 (the window is empty while c = 0).
C23_OneFileWindow ==
  OneEventFile =>
    LET c == current_event_file_number_
    IN /\ EventFilesOn(disk) \subseteq {GetEventFilePath(0)}
       /\ StitchWindow(c) = BeginFilenumber..(EndFilenumber - 1)
       /\ c >= 1 => /\ BeginFilenumber = c /\ EndFilenumber - 1 = c
                    /\ FileNumberToIndex(c) = 0
       /\ c = 0 => BeginFilenumber = EndFilenumber
       /\ (c >= 1 /\ io_failures = 0 /\ stops = 0 /\ file_writer = "alive"
             /\ Pending("DeleteSoon") = {}) =>
            EventFilesOn(disk) = {GetEventFilePath(0)}

\* C23's case: one event file, rotated at least once, and Stop has run.
C23_Witness ==
  /\ OneEventFile /\ stops = 1 /\ io_failures = 0
  /\ current_event_file_number_ >= 2
  /\ Len(written) >= 6

\* C24: the write queue's limit is 2 * max_total_size in bounded mode and
\* kNoLimit in unbounded mode, for every max_total_size a size_t can hold.
C24_QueueCap ==
  memory_max_ = IF IsUnbounded THEN kNoLimit ELSE 2 * max_total_size

\* The stream Flush writes events to is null after the step.
EventStreamNull ==
  IF IsBounded THEN ~current_event_file_'.open ELSE ~final_log_file_'.open

\* C25: a failed fopen leaves the stream null, and a write of an event to a
\* null stream writes nothing: no event is recorded as written, the size of the
\* current event file gets nothing added (it is 0 after a rotation whose fopen
\* failed), wrote_event_bytes_ keeps its value and the disk changes only by
\* the closing of the file rotated away from.  The event is still taken off
\* the local queue, so the events after it are processed, and a Stop that was
\* requested has run once the file task runner is idle, whatever fopen calls
\* failed: it leaves both streams null and, in bounded mode, no .inprogress
\* directory and no file of it.
C25_NullStreamWritesNothing ==
  /\ [][(WritesEvent /\ EventStreamNull) =>
          LET rotate == IsBounded /\ MustIncrement
          IN /\ written' = written
             /\ written_to' = written_to
             /\ wrote_event_bytes_' = wrote_event_bytes_
             /\ current_event_file_size_'
                  = (IF rotate THEN 0 ELSE current_event_file_size_)
             /\ disk' = (IF rotate THEN FlushedDisk(disk, current_event_file_)
                                   ELSE disk)]_vars
  /\ [][io_failures' > io_failures =>
          \/ ~final_log_file_'.open
          \/ IsBounded /\ ~current_event_file_'.open
          \/ stops' > stops \/ create_directory_failed']_vars
  /\ []((stop_called /\ AllTasksRan /\ file_writer = "alive") => stops >= 1)
  /\ [](stops >= 1 =>
          /\ ~final_log_file_.open
          /\ IsBounded => /\ ~current_event_file_.open
                          /\ ~disk.dir
                          /\ \A p \in InprogressPaths : ~disk.files[p].exists)

\* C25's case: an fopen failed, events that came later were given to the null
\* stream, and Stop has run.
C25_Witness ==
  /\ stops = 1 /\ io_failures >= 1 /\ ~create_directory_failed
  /\ Len(written) < Len(pushed) - Cardinality(dropped)
  /\ local_file_queue = <<>> /\ queue_ = <<>>
  /\ written # <<>>

\* C26: whenever queue_ holds kNumWriteQueueEvents events or more and no
\* OnAddEntry call is between its push and its PostTask, a Flush task is
\* waiting on the file task runner; a Flush task leaves the task queue only in
\* the step in which it swaps queue_ empty.
C26_DrainScheduled ==
  /\ []((Len(queue_) >= kNumWriteQueueEvents /\ ~posting) => Pending("Flush") # {})
  /\ [][Cardinality(Pending("Flush"))' < Cardinality(Pending("Flush"))
          => queue_' = <<>>]_vars

\* C26's case: the queue has grown past the threshold while the Flush task
\* posted at the threshold is still waiting.
C26_Witness ==
  /\ Len(queue_) > kNumWriteQueueEvents /\ ~posting
  /\ Cardinality(Pending("Flush")) = 1

\* The loop of Flush over a queue when every fopen and fwrite succeeds: the
\* file numbers it writes events to, starting from file number `number` with
\* `size` bytes in the current event file.
RECURSIVE FlushFileNumbers(_, _, _)
FlushFileNumbers(queue, number, size) ==
  IF queue = <<>> THEN {}
  ELSE LET increment == number = 0 \/ size >= max_event_file_size_
           n == IF increment THEN number + 1 ELSE number
           s == (IF increment THEN 0 ELSE size)
                  + Len(EventJson(Head(queue)) \o kEventSeparator)
       IN {n} \cup FlushFileNumbers(Tail(queue), n, s)

\* AddEntryToQueue has dropped an event since the last SwapQueue.
DroppedSinceSwap == \E id \in dropped : id > swapped
\* Every event so far is no larger than max_event_file_size_.
AllEventsFit == \A i \in 1..Len(pushed) : pushed[i].len <= max_event_file_size_

\* C27: in bounded mode, when no event is larger than max_event_file_size_, a
\* queue that has dropped an event since it was last swapped holds, when Flush
\* swaps it out, events that go to at least total_num_event_files_ file
\* numbers.
C27_HeadRoom ==
  [][(IsBounded /\ AllEventsFit /\ DroppedSinceSwap /\ swapped' # swapped) =>
       Cardinality(FlushFileNumbers(queue_, current_event_file_number_,
                                    current_event_file_size_))
         >= total_num_event_files_]_vars

\* C27 where the doubling of max_total_size does not wrap.
C27_HeadRoomNoWrap ==
  [][(IsBounded /\ AllEventsFit /\ DroppedSinceSwap /\ swapped' # swapped
        /\ memory_max_ = 2 * max_total_size) =>
       Cardinality(FlushFileNumbers(queue_, current_event_file_number_,
                                    current_event_file_size_))
         >= total_num_event_files_]_vars

\* C27's case without the wrap: a queue that dropped an event was swapped out
\* and its events went to total_num_event_files_ file numbers or more.
C27_NoWrapWitness ==
  /\ IsBounded /\ AllEventsFit /\ total_num_event_files_ > 1
  /\ memory_max_ = 2 * max_total_size
  /\ dropped # {} /\ swapped = Len(pushed) /\ local_file_queue = <<>>
  /\ written # <<>> /\ current_event_file_number_ >= total_num_event_files_

\* The event the step pushes, when the step is a push.
Pushes == pushed' # pushed
PushedEvent == pushed'[Len(pushed')]

\* C28: the push of an event larger than memory_max_ leaves queue_ empty and
\* memory_ 0: every event that was in the queue and the event itself are
\* dropped; the length returned is 0, so this OnAddEntry call is not about to
\* post a Flush task and posts none.
C28_OversizedEventEmptiesQueue ==
  [][(Pushes /\ PushedEvent.len > memory_max_) =>
       /\ queue_' = <<>>
       /\ memory_' = 0
       /\ dropped' = dropped \cup Ids(queue_) \cup {PushedEvent.id}
       /\ ~posting'
       /\ task_queue' = task_queue]_vars

\* C28's case: an event larger than memory_max_ was pushed onto a queue that
\* held events, and all of them are gone.
C28_Witness ==
  /\ Len(pushed) >= 3 /\ swapped = 0
  /\ pushed[Len(pushed)].len > memory_max_
  /\ memory_max_ > 0
  /\ queue_ = <<>> /\ memory_ = 0 /\ ~posting
  /\ dropped = Ids(pushed)

\* A step in which Flush or FlushThenStop starts, with its call of SwapQueue.
SwapStep ==
  /\ task_queue # <<>> /\ Head(task_queue).op \in {"Flush", "FlushThenStop"}
  /\ task_queue' = Tail(task_queue)

\* The events pushed since the last SwapQueue that were not dropped, in the
\* order of their pushes.
KeptSinceSwap ==
  SelectSeq(SubSeq(pushed, swapped + 1, Len(pushed)), LAMBDA e : e.id \notin dropped)

\* C29: SwapQueue is called with an empty local queue and, in one step, moves
\* the whole of queue_ in its order into the local queue, leaves queue_ empty
\* and sets memory_ to 0.  Every push is wholly before or wholly after the
\* swap: the local queue gets exactly the events pushed since the previous
\* swap and not dropped, and queue_ always holds exactly the events pushed
\* since the last swap and not dropped.
C29_SwapQueueAtomic ==
  /\ [][SwapStep =>
          /\ local_file_queue = <<>>
          /\ local_file_queue' = queue_
          /\ local_file_queue' = KeptSinceSwap
          /\ queue_' = <<>>
          /\ memory_' = 0
          /\ pushed' = pushed]_vars
  /\ [](queue_ = KeptSinceSwap)

\* C29's case: a queue of several events was swapped out, Flush is still
\* writing them, and an event pushed after the swap is in queue_.
C29_Witness ==
  /\ Len(local_file_queue) >= 2 /\ swapped >= kNumWriteQueueEvents
  /\ Len(queue_) = 1 /\ queue_[1].id = swapped + 1
  /\ memory_ = queue_[1].len

\* The last n elements of seq (all of it when it is shorter).
LastOf(seq, n) ==
  IF Len(seq) <= n THEN seq ELSE SubSeq(seq, Len(seq) - n + 1, Len(seq))

\* C30: with max_total_size < total_num_event_files_ in bounded mode
\* max_event_file_size_ is 0, so every event Flush writes goes to a new file
\* number, one above the last, and is the only event of its file; after a Stop
\* of a run without failures the events of the final file are the last
\* total_num_event_files_ events written (all of them when there are fewer).
C30_EveryEventRotates ==
  /\ []((IsBounded /\ max_total_size < total_num_event_files_)
          => max_event_file_size_ = 0)
  /\ [][(IsBounded /\ max_total_size < total_num_event_files_ /\ WritesEvent) =>
          /\ current_event_file_number_' = current_event_file_number_ + 1
          /\ current_event_file_'.open =>
               /\ written' = Append(written, Head(local_file_queue))
               /\ TextUpToPosition(disk', current_event_file_')
                    = EventJson(Head(local_file_queue)) \o kEventSeparator]_vars
  /\ []((IsBounded /\ max_total_size < total_num_event_files_ /\ Stopped /\ QuietRun)
          => /\ ParseLog(stopped_text).ok
             /\ ParseLog(stopped_text).events
                  = EventTexts(LastOf(written, total_num_event_files_)))

\* C30's case: more events than there are event files were written, one per
\* file number, and Stop has stitched the final file.
C30_Witness ==
  /\ IsBounded /\ max_total_size < total_num_event_files_
  /\ Stopped /\ QuietRun
  /\ Len(written) > total_num_event_files_
  /\ current_event_file_number_ = Len(written)
  /\ Len(ParseLog(stopped_text).events) = total_num_event_files_

\* C31: FileNumberToIndex(fn) is (fn - 1) mod N with 0 <= index < N, and
\* fn = ((fn - 1) div N) * N + (index + 1), for every file number fn >= 1 and
\* the N >= 1 of the configuration; the file Flush opens for a file number is
\* the event file of that index.
C31_FileNumberToIndex ==
  /\ [](total_num_event_files_ >= 1)
  /\ [](\A fn \in 1..(MaxEvents + 1) :
          LET N == total_num_event_files_
              index == FileNumberToIndex(fn)
          IN /\ index = (fn - 1) % N
             /\ 0 <= index /\ index < N
             /\ fn = ((fn - 1) \div N) * N + (index + 1))
  /\ [][(current_event_file_number_' # current_event_file_number_
           /\ current_event_file_'.open) =>
          LET index == FileNumberToIndex(current_event_file_number_')
          IN /\ current_event_file_'.path = GetEventFilePath(index)
             /\ current_event_file_number_'
                  = ((current_event_file_number_' - 1) \div total_num_event_files_)
                      * total_num_event_files_ + (index + 1)]_vars

\* C31's case: with several event files the file numbers have gone around and
\* the current file is the one of index (fn - 1) mod N.
C31_Witness ==
  /\ total_num_event_files_ > 1
  /\ current_event_file_number_ > total_num_event_files_
  /\ current_event_file_.open
  /\ current_event_file_.path
       = GetEventFilePath((current_event_file_number_ - 1) % total_num_event_files_)

\* A step in which the encoder fails on an event (not on the polled data,
\* which is encoded in Stop).
EncoderFailsOnEvent == encode_failures' > encode_failures /\ stops' = stops

\* C32: when the encoder fails on an event, OnAddEntry changes nothing: the
\* queue, memory_, the tasks of the file task runner, the observer and the
\* file writer with its files are as before, so the events before and after
\* it are treated as if the call had not happened.
C32_EncodeFailureDropsOnlyThatEvent ==
  [][EncoderFailsOnEvent =>
       UNCHANGED <<config_vars, observer_vars, queue_vars, task_queue, running,
                   local_file_queue, writer_vars, disk, pushed, written, swapped,
                   dropped, written_to>>]_vars

\* C32's case: the encoder failed on one event of a run whose other events
\* are all in the final file.
C32_Witness ==
  /\ encode_failures = 1 /\ Stopped /\ polled_supplied = "none"
  /\ Len(pushed) >= 2
  /\ ParseLog(stopped_text).ok
  /\ ParseLog(stopped_text).events = EventTexts(pushed)

\* No element occurs twice in seq.
NoRepeats(seq) == \A i, j \in 1..Len(seq) : seq[i] = seq[j] => i = j

\* C33: a pushed event is consumed at most once.  At any time it is in exactly
\* one place: dropped by AddEntryToQueue, in queue_, in the local queue of the
\* one Flush that swapped it out, or taken off that local queue, and no event
\* is written twice.  The local queue gets events only by SwapQueue and
\* otherwise only loses its head, one event per step, so a Flush handles
\* exactly the events queue_ held at its swap and ends; a push during the
\* drain goes to queue_ and leaves the local queue alone.
C33_ConsumedAtMostOnce ==
  /\ [](/\ NoRepeats(written)
        /\ NoRepeats(queue_ \o local_file_queue)
        /\ Ids(written) \cap (dropped \cup Ids(queue_) \cup Ids(local_file_queue)) = {}
        /\ dropped \cap (Ids(queue_) \cup Ids(local_file_queue)) = {}
        /\ dropped \cup Ids(queue_) \cup Ids(local_file_queue) \cup Ids(written)
             \subseteq Ids(pushed)
        /\ \A i \in 1..Len(local_file_queue) : local_file_queue[i].id <= swapped
        /\ \A i \in 1..Len(queue_) : queue_[i].id > swapped)
  /\ [][local_file_queue' # local_file_queue =>
          \/ SwapStep /\ local_file_queue = <<>> /\ local_file_queue' = queue_
          \/ /\ local_file_queue # <<>>
             /\ local_file_queue' = Tail(local_file_queue)
             /\ queue_' = queue_
             /\ Len(written') <= Len(written) + 1
             /\ written' # written =>
                  written' = Append(written, Head(local_file_queue))]_vars
  /\ [][Pushes => local_file_queue' = local_file_queue]_vars

\* C33's case: while a Flush is writing the events it swapped out, some written
\* and some still to write, an event pushed during the drain waits in queue_.
C33_Witness ==
  /\ running.op = "Flush"
  /\ written # <<>> /\ local_file_queue # <<>> /\ queue_ # <<>>
  /\ Len(pushed) > swapped

\* C34: memory_ is the sum of the sizes of the events in queue_ in every state
\* between two operations of the WriteQueue, whatever pushes, drops and swaps
\* came before; in particular it is 0 exactly when queue_ is empty.
C34_MemoryIsSumOfSizes ==
  /\ memory_ = SumSizes(queue_) % SizeTModulus
  /\ SumSizes(queue_) < SizeTModulus
  /\ (memory_ = 0) = (queue_ = <<>>)

\* C34's case: events of different sizes were pushed, some were dropped, and
\* queue_ still holds several while a Flush drains an earlier swap or none has
\* run yet.
C34_Witness ==
  /\ DroppedSinceSwap
  /\ Len(queue_) >= 2
  /\ \E i, j \in 1..Len(queue_) : queue_[i].len # queue_[j].len
  /\ memory_ = SumSizes(queue_)

\* The final log stream as Stop hands it to RewindIfWroteEventBytes, when Stop
\* meets the failures x.
StreamAtRewind(x) ==
  IF IsBounded
  THEN LET c == OpenFileForWrite(disk, GetClosingFilePath, "open_closing" \in x.opens)
           closing_file == WritePolledDataToFile(c.file, <<>>)
       IN StitchedEventFiles(FlushedDisk(c.disk, closing_file),
                             "reopen_final" \in x.opens, x.reads)
  ELSE Stream(disk, final_log_file_)

\* The text of the file of stream s once its buffer is written out.
TextOf(s) == FlushedDisk(s.disk, s.file).files[s.file.path].data

\* text ends with the line of a written event: its JSON and ",\n".
EndsWithEventLine(text) ==
  \E i \in 1..Len(written) : IsSuffix(EventJson(written[i]) \o kEventSeparator, text)

\* Stop is about to run.
StopIsNext == running.op = "FlushThenStop" /\ local_file_queue = <<>>

\* C35: whenever Stop's seek-back takes place (the final log stream is non-null
\* and wrote_event_bytes_ is set), the final file ends at that moment with the
\* ",\n" of an event's line, so the two bytes it drops are that separator; in
\* both modes and whatever fopen calls failed before or fail in Stop.
C35_RewindRemovesSeparator ==
  (StopIsNext /\ wrote_event_bytes_) =>
    \A x \in StopFailures :
      StreamAtRewind(x).file.open => EndsWithEventLine(TextOf(StreamAtRewind(x)))

\* C35 with more than one event file (or in unbounded mode) and a Stop in
\* which every event file that exists can be read.
C35_RewindRemovesSeparatorWhenReadable ==
  (StopIsNext /\ wrote_event_bytes_ /\ (IsUnbounded \/ ~OneEventFile)) =>
    \A x \in StopFailures :
      (StreamAtRewind(x).file.open /\ x.reads \cap EventFilePaths = {})
        => EndsWithEventLine(TextOf(StreamAtRewind(x)))

\* The case of C35_RewindRemovesSeparatorWhenReadable: the file numbers have
\* gone around, an fopen of an event file failed on the way, and Stop is next.
C35_WitnessWhenReadable ==
  /\ StopIsNext /\ wrote_event_bytes_ /\ IsBounded /\ ~OneEventFile
  /\ io_failures >= 1 /\ final_log_file_.open
  /\ current_event_file_number_ > total_num_event_files_

\* In bounded mode an event file has been asked for and the stream is null:
\* the fopen of the current file number failed.
EventFileNull ==
  IsBounded /\ current_event_file_number_ >= 1 /\ ~current_event_file_.open

\* C36: in bounded mode with max_event_file_size_ > 0, a rotation whose fopen
\* fails leaves current_event_file_size_ 0, and from then on until Stop every
\* event Flush takes is written nowhere: the file number, the size 0, the null
\* stream, the disk and wrote_event_bytes_ stay as they are.
C36_NoRotationAfterFailedOpen ==
  /\ [][(IsBounded /\ max_event_file_size_ > 0 /\ WritesEvent
           /\ ~current_event_file_'.open) =>
          current_event_file_size_' = 0]_vars
  /\ [][(EventFileNull /\ max_event_file_size_ > 0 /\ WritesEvent) =>
          /\ current_event_file_number_' = current_event_file_number_
          /\ current_event_file_size_' = 0
          /\ ~current_event_file_'.open
          /\ written' = written
          /\ wrote_event_bytes_' = wrote_event_bytes_
          /\ disk' = disk]_vars
  /\ []((EventFileNull /\ max_event_file_size_ > 0 /\ stops = 0
           /\ local_file_queue # <<>>) => current_event_file_size_ = 0)

\* C36's case: the fopen of a rotation failed during one Flush after events had
\* been written, and a later FlushThenStop has swapped out the event pushed
\* since, which it finds the stream null for.
C36_Witness ==
  /\ EventFileNull /\ max_event_file_size_ > 0
  /\ io_failures = 1 /\ current_event_file_number_ >= 2
  /\ running.op = "FlushThenStop"
  /\ Len(local_file_queue) = 1
  /\ local_file_queue[1].id = kNumWriteQueueEvents + 1
  /\ dropped = {} /\ written # <<>>

\* The smallest encoded size of an event.
SmallestSize ==
  CHOOSE s \in OrdinarySize \cup OddSizes : \A u \in OrdinarySize \cup OddSizes : s <= u

\* Bounded mode with a memory limit that kNumWriteQueueEvents events of even
\* the smallest size exceed.
LimitBelowThreshold ==
  IsBounded /\ memory_max_ < kNumWriteQueueEvents * SmallestSize

\* C37: when the queue's memory limit admits fewer than kNumWriteQueueEvents
\* events, the length AddEntryToQueue returns is never kNumWriteQueueEvents
\* and no Flush task is ever posted; events are written only by the
\* FlushThenStop that StopObserving posts, so the final file holds no event
\* that AddEntryToQueue had dropped: only events still in the queue at the
\* time of StopObserving.
C37_NoFlushBelowThreshold ==
  /\ [](LimitBelowThreshold =>
          /\ Len(queue_) < kNumWriteQueueEvents
          /\ ~posting
          /\ Pending("Flush") = {} /\ running.op # "Flush")
  /\ [][(LimitBelowThreshold /\ written' # written) =>
          running.op = "FlushThenStop" /\ stop_called]_vars
  /\ []((LimitBelowThreshold /\ Stopped) =>
          \A i \in 1..Len(pushed) :
            Contains(stopped_text, EventJson(pushed[i])) =>
              /\ pushed[i].id \notin dropped
              /\ pushed[i] \in {written[j] : j \in 1..Len(written)})

\* C37's case: more events were pushed than the limit admits, the oldest were
\* dropped, and after Stop the final file holds the last one pushed.
C37_Witness ==
  /\ LimitBelowThreshold /\ Stopped /\ memory_max_ > 0
  /\ dropped # {} /\ Len(pushed) >= 3
  /\ Contains(stopped_text, EventJson(pushed[Len(pushed)]))
  /\ ~Contains(stopped_text, EventJson(pushed[1]))

\* C38: in bounded mode nothing of an event reaches the final file before Stop.
\* While the .inprogress directory exists the final file holds the placeholder
\* text and nothing else and its stream buffers nothing; a step of Flush that
\* writes an event changes only event files; once Stop has run, the directory
\* and every constants, event and closing file are gone, and the final file is
\* what remains.
C38_FinalFileUntouchedBeforeStop ==
  /\ []((IsBounded /\ disk.dir) =>
          /\ stops = 0
          /\ FinalLog.exists /\ FinalLog.data = kPlaceholder
          /\ final_log_file_.open => final_log_file_.buf = <<>>)
  /\ []((IsBounded /\ stops = 0) =>
          /\ FinalLog.exists => FinalLog.data \in {<<>>, kPlaceholder}
          /\ final_log_file_.open => final_log_file_.buf = <<>>)
  /\ [][(IsBounded /\ WritesEvent) =>
          /\ final_log_file_' = final_log_file_
          /\ \A p \in Paths \ EventFilePaths : disk'.files[p] = disk.files[p]
          /\ disk'.dir = disk.dir]_vars
  /\ []((IsBounded /\ Stopped) =>
          /\ ~disk.dir
          /\ \A p \in InprogressPaths : ~disk.files[p].exists
          /\ io_failures = 0 => stopped_text # kPlaceholder)
  /\ [][(IsBounded /\ stops' > stops /\ io_failures' = 0) =>
          FinalLog'.exists /\ HasPrefix(FinalLog'.data, PrologueText)]_vars

\* C38's case: events have been written to event files, the final file still
\* holds the placeholder only, and Stop has not run.
C38_Witness ==
  /\ IsBounded /\ stops = 0 /\ disk.dir
  /\ Len(written) >= 2 /\ EventFilesOn(disk) # {}
  /\ FinalLog.data = kPlaceholder

\* C38's case after Stop: only the final file is left, with the events in it.
C38_WitnessAfterStop ==
  /\ IsBounded /\ Stopped /\ written # <<>>
  /\ ~disk.dir /\ \A p \in InprogressPaths : ~disk.files[p].exists
  /\ FinalLog.exists /\ Contains(FinalLog.data, EventJson(written[Len(written)]))

\* Flush's next step opens the next event file.
RotationIsNext ==
  running # NoTask /\ local_file_queue # <<>> /\ IsBounded /\ MustIncrement

\* The events the model can push: non-null strings of a known size.
IsEvent(e) ==
  /\ DOMAIN e = {"id", "len"}
  /\ e.id \in 1..Len(pushed)
  /\ e.len \in OrdinarySize \cup OddSizes

\* C39: the DCHECKs of FileWriter and WriteQueue hold wherever they are reached.
\* FileNumberToIndex gets a file number >= 1 and GetEventFilePath an index
\* below total_num_event_files_, both from IncrementCurrentEventFile and from
\* the loop of StitchFinalLogFile; in unbounded mode no event file is ever
\* asked for (the file number stays 0, no event stream, no event file, no
\* directory); a task of the file task runner starts with Flush's local queue
\* empty; every element of the queue, so also the front that an overflow pops,
\* is a string.
C39_DebugAssertionsHold ==
  /\ total_num_event_files_ > 0
  /\ current_event_file_number_ >= 0
  /\ RotationIsNext =>
       /\ current_event_file_number_ + 1 > 0
       /\ FileNumberToIndex(current_event_file_number_ + 1) < total_num_event_files_
  /\ (IsBounded /\ StopIsNext) =>
       /\ BeginFilenumber > 0
       /\ \A fn \in BeginFilenumber..(EndFilenumber - 1) :
            /\ fn > 0
            /\ FileNumberToIndex(fn) \in 0..(total_num_event_files_ - 1)
  /\ IsUnbounded =>
       /\ current_event_file_number_ = 0
       /\ ~current_event_file_.open
       /\ EventFilesOn(disk) = {} /\ ~disk.dir
  /\ running = NoTask => local_file_queue = <<>>
  /\ \A i \in 1..Len(queue_) : IsEvent(queue_[i])
  /\ \A i \in 1..Len(local_file_queue) : IsEvent(local_file_queue[i])

\* C39's case: after an overflow has popped the front of the queue and the file
\* numbers have gone around the event files, Stop is about to stitch them.
C39_Witness ==
  /\ IsBounded /\ StopIsNext /\ total_num_event_files_ > 1
  /\ current_event_file_number_ > total_num_event_files_
  /\ dropped # {}
  /\ BeginFilenumber > 1

\* C40: current_event_file_size_, which the constructor leaves unset, has been
\* assigned whenever Flush reads it.  It is unset exactly while the file number
\* is 0, where Flush's test stops at current_event_file_number_ == 0; every
\* event Flush handles in bounded mode leaves the file number >= 1 and the
\* size assigned.  From the first rotation on the size is the number of bytes
\* written under the current file number, which is the position of the current
\* stream while that is open.
C40_SizeAssignedBeforeRead ==
  /\ [](current_event_file_size_ = Uninitialized <=> current_event_file_number_ = 0)
  /\ []((running # NoTask /\ local_file_queue # <<>> /\ IsBounded
           /\ current_event_file_size_ = Uninitialized) =>
          current_event_file_number_ = 0)
  /\ [][(IsBounded /\ WritesEvent) =>
          /\ current_event_file_number_' >= 1
          /\ current_event_file_size_' # Uninitialized
          /\ current_event_file_size_' >= 0]_vars
  /\ [](current_event_file_number_ >= 1 =>
          /\ current_event_file_size_
               = Len(LinesOf(written, written_to, {current_event_file_number_}))
          /\ current_event_file_.open =>
               current_event_file_size_
                 = current_event_file_.off + Len(current_event_file_.buf))

\* C40's case: after a rotation two events have been written to the current
\* event file, part of them already written out by the C library.
C40_Witness ==
  /\ IsBounded /\ current_event_file_number_ >= 2 /\ current_event_file_.open
  /\ current_event_file_.off > 0 /\ current_event_file_.buf # <<>>
  /\ current_event_file_size_
       = current_event_file_.off + Len(current_event_file_.buf)

====
